---------------------------- MODULE Spec2Model ----------------------------
(***************************************************************************)
(* A model of the concolic test-input generation engine                    *)
(* (src/concolic_engine.py): the predicate model and its negation, the     *)
(* path enumerator, the solver adapter, the input encoder, the constraint *)
(* extractor and the batch loop of generate_inputs.                        *)
(*                                                                         *)
(* Representation notes.                                                   *)
(*  - A PathConstraint is a record [var_name, constraint_type, value,      *)
(*    location].  Optional[int] is a sequence of length 0 (None) or 1.     *)
(*  - A ConstraintType is the string value of the enum member.             *)
(*  - A 64-bit word is a sequence of 8 bytes, least significant first.     *)
(*    A value of a solved assignment (the Python int as_long() returns)    *)
(*    is the word of that unsigned number.                                 *)
(***************************************************************************)
EXTENDS Integers, Sequences, FiniteSets, TLC

VARIABLES
    neg_hist,      \* harness of _negate: <<p, _negate(p), _negate(_negate(p))>>
    gp_in,         \* harness of _gen_paths: [constraints, max_paths]
    gp_out,        \* harness of _gen_paths: <<>> before the call, <<paths>> after
    sv_in,         \* harness of solve: the ExecutionPath
    sv_out,        \* harness of solve: <<>> before the call, <<result>> after
    enc_in,        \* harness of _sol_to_bytes: [solution, func_data]
    enc_calls,     \* harness of _sol_to_bytes: the calls made, [solution, result]
    enc_in_only,   \* harness of _sol_to_bytes: <<>>, or <<result>> of the call
                   \* with the IN arguments of the manifest alone
    ext_in,        \* harness of extract_constraints: [guards, shape],
                   \* the source text it stands for is SourceOf(ext_in)
    ext_out,       \* harness of extract_constraints: <<>>, or <<result>>
    ord_in,        \* harness of the batch order: [manifest, perm, cache,
                   \* max_paths, solver]
    ord_out,       \* harness of the batch order: <<>>, or <<[first, second]>>,
                   \* the batch over the manifest and over its permutation
    wr_args,       \* firness_enhanced: the parsed command line
    wr_env,        \* firness_enhanced: what the run finds on the machine
    wr_pc,         \* firness_enhanced: position in main / apply_enhancements
    wr_success,    \* firness_enhanced: the local success of apply_enhancements
    wr_out,        \* firness_enhanced: the messages printed so far
    wr_status,     \* firness_enhanced: <<>>, or <<exit status of main>>
    wr_engine,     \* firness_enhanced: <<>>, or <<outcome of the child
                   \* process concolic_engine.py>>
    wr_dir,        \* firness_enhanced: /workspace/concolic_inputs exists
    hp_heap,       \* objects: [preds, lists], the PathConstraint objects and
                   \* the list objects (sequences of predicate identities),
                   \* each identified by its place in the sequence
    hp_call,       \* objects: [constraints, max_paths], the arguments of
                   \* _gen_paths; constraints is the registry's list object
    hp_paths,      \* objects: <<>>, or <<the list object of each path>>
    hp_snap,       \* history: the heap when _gen_paths was called, and the
                   \* content of each path when it returned
    hp_touched,    \* history: the paths whose list a caller changed since
    hp_changes,    \* history: the number of those changes
    ct_args,       \* crash_triage: [deduplicate, json] of the command line
    ct_logs,       \* crash_triage: the crash logs of the directory, each
                   \* as what analyze_crash finds in it
    ct_crashes,    \* CrashAnalyzer.crashes
    ct_buckets,    \* CrashAnalyzer.crash_buckets: hash -> list of crashes
    ct_pc,         \* crash_triage: position in main
    ct_reports,    \* crash_triage: the reports written, each as
                   \* [report, total_crashes, occurrences by hash]
    mu_in,         \* mutate_input: [protocol_guid, data, iterations]
    mu_data,       \* mutate_input: the local data
    mu_mutations,  \* mutate_input: the list mutations
    mu_i,          \* mutate_input: iterations of the loop done
    mu_pc,         \* mutate_input: "loop", "returned", or "raised" (an
                   \* exception left the call)
    mu_draws,      \* history: what self.random gave in each iteration

    firness_data,     \* ConcolicEngine.firness_data: the analysis manifest
    constraint_cache, \* ConcolicEngine.constraint_cache: the hint registry
    last_hint,        \* history: function name -> the list of the most recent
                      \* add_hints call made for it
    solver,           \* the order in which this z3 build prefers model values
    pc,               \* position in generate_inputs: "idle", "for_func",
                      \* "for_path", "solved" (sol assigned), "encoded"
                      \* (data assigned), "done" (returned), "raised" (an
                      \* exception left the call)
    gi_max_paths,     \* argument of generate_inputs
    fi,               \* number of the manifest entry of the outer loop
    gi_constraints,   \* local of the outer loop
    gi_paths,         \* local of the outer loop
    gi_idx,           \* index of the inner loop (from 0)
    gi_sol,           \* local sol of the inner loop
    gi_data,          \* local data of the inner loop
    gi_count,         \* local count
    files,            \* output_dir: file name -> bytes
    writes,           \* history: the file names written, in order
    processed,        \* history: [func, constraints, enumerated] per entry visited
    ret,              \* <<>>, <<count>> returned, or <<exception name>>
    log               \* history: the registry reads, solves and writes of
                      \* generate_inputs as [kind, entry, idx], in order

pureVars == <<neg_hist, gp_in, gp_out, sv_in, sv_out, enc_in, enc_calls,
              enc_in_only, ext_in, ext_out>>
engineVars == <<firness_data, constraint_cache, last_hint, solver, pc, gi_max_paths, fi,
                gi_constraints, gi_paths, gi_idx, gi_sol, gi_data, gi_count, files,
                writes, processed, ret, log>>
ordVars == <<ord_in, ord_out>>
wrVars == <<wr_args, wr_env, wr_pc, wr_success, wr_out, wr_status, wr_engine,
           wr_dir>>
hpVars == <<hp_heap, hp_call, hp_paths, hp_snap, hp_touched, hp_changes>>
ctVars == <<ct_args, ct_logs, ct_crashes, ct_buckets, ct_pc, ct_reports>>
muVars == <<mu_in, mu_data, mu_mutations, mu_i, mu_pc, mu_draws>>
toolVars == <<ordVars, wrVars, hpVars, ctVars, muVars>>
vars == <<pureVars, engineVars, toolVars>>

--------------------------------------------------------------------------
(* Bounds of the model *)

\* longest predicate list handed to _gen_paths
MaxPreds == 3
\* largest path budget (max_paths) tried
MaxBudget == 4
\* half-width of the window of values about 0 a z3 model is taken from
SolverWindow == 3
\* changes a caller makes to the lists of the returned paths
MaxChanges == 2
\* crash logs in the directory
MaxCrashes == 2
\* most iterations of mutate_input
MaxIterations == 2
\* longest path handed to solve on its own
MaxPathLen == 2
\* longest list of freely chosen Arguments of a manifest entry
MaxArgs == 2
\* number of unresolved 64-bit IN arguments in front of a long manifest
PadArgs == 511
\* longest analysis manifest
MaxFuncs == 2
\* most guard lines in a source text handed to extract_constraints
MaxGuards == 2

\* a Python dict is a function on its keys
EmptyDict == [k \in {} |-> 0]
Get(dict, key, default) == IF key \in DOMAIN dict THEN dict[key] ELSE default
Put(dict, key, value) ==
    [k \in DOMAIN dict \cup {key} |-> IF k = key THEN value ELSE dict[k]]

Min(a, b) == IF a <= b THEN a ELSE b
Max(a, b) == IF a >= b THEN a ELSE b

--------------------------------------------------------------------------
(* Predicate model: ConstraintType, PathConstraint *)

ConstraintType == {"eq", "neq", "lt", "gt", "le", "ge", "null", "bounds", "flags"}

\* the six kinds that compare the variable with the operand
OrderingKinds == {"eq", "neq", "lt", "gt", "le", "ge"}

None == <<>>
Some(v) == <<v>>

\* location: the empty string, or f"{function_name}:{i}" as <<function_name, i>>
NoLocation == <<>>
Location(fn, i) == <<fn, i>>

PathConstraint(var_name, constraint_type, value, location) ==
    [var_name |-> var_name, constraint_type |-> constraint_type,
     value |-> value, location |-> location]

\* the operands of the comparison and flag predicates: those of the hints
\* of main that fit the window (0 and 0x01)
Operands == {0, 1}

\* the operands a predicate of a kind carries: NULL (and BOUNDS) are built
\* without a value, the others with an integer
ValuesOf(kind) ==
    IF kind \in {"null", "bounds"} THEN {None} ELSE {Some(v) : v \in Operands}

PredsOver(names, locations) ==
    UNION { { PathConstraint(n, k, v, l) : v \in ValuesOf(k) } :
            <<n, k, l>> \in names \X ConstraintType \X locations }

--------------------------------------------------------------------------
(* ConcolicEngine._negate *)

NegateWrongEntry(c) ==
    LET t == c.constraint_type
        new_type == CASE t = "eq"  -> "neq"
                      [] t = "neq" -> "eq"
                      [] t = "lt"  -> "ge"
                      [] t = "gt"  -> "le"
                      [] t = "le"  -> "gt"
                      [] t = "ge"  -> "le"
                      [] OTHER     -> t
    IN  PathConstraint(c.var_name, new_type, c.value, c.location)

NegateDefaultsToNeq(c) ==
    LET t == c.constraint_type
        new_type == CASE t = "eq"  -> "neq"
                      [] t = "neq" -> "eq"
                      [] t = "lt"  -> "ge"
                      [] t = "gt"  -> "le"
                      [] t = "le"  -> "gt"
                      [] t = "ge"  -> "lt"
                      [] OTHER     -> "neq"
    IN  PathConstraint(c.var_name, new_type, c.value, c.location)

_negate(c) ==
    LET t == c.constraint_type
        new_type == CASE t = "eq"  -> "neq"
                      [] t = "neq" -> "eq"
                      [] t = "lt"  -> "ge"
                      [] t = "gt"  -> "le"
                      [] t = "le"  -> "gt"
                      [] t = "ge"  -> "lt"
                      [] OTHER     -> t
    IN  PathConstraint(c.var_name, new_type, c.value, c.location)

--------------------------------------------------------------------------
(* ExecutionPath and ConcolicEngine._gen_paths *)

ExecutionPath(constraints) == [constraints |-> constraints]

\* the for loop of _gen_paths, from 0-based index i on
RECURSIVE GenLoop(_, _, _, _)
GenLoop(constraints, max_paths, i, paths) ==
    IF i >= Len(constraints) THEN paths
    ELSE IF Len(paths) >= max_paths THEN paths
    ELSE GenLoop(constraints, max_paths, i + 1,
                 Append(paths,
                        ExecutionPath(Append(SubSeq(constraints, 1, i),
                                             _negate(constraints[i + 1])))))

GenPathsOffByOne(constraints, max_paths) ==
    LET RECURSIVE Loop(_, _)
        Loop(i, paths) ==
            IF i >= Len(constraints) THEN paths
            ELSE IF Len(paths) > max_paths THEN paths
            ELSE Loop(i + 1,
                      Append(paths,
                             ExecutionPath(Append(SubSeq(constraints, 1, i),
                                                  _negate(constraints[i + 1])))))
    IN  Loop(0, <<ExecutionPath(constraints)>>)

GenPathsKeepsFlipped(constraints, max_paths) ==
    LET RECURSIVE Loop(_, _)
        Loop(i, paths) ==
            IF i >= Len(constraints) THEN paths
            ELSE IF Len(paths) >= max_paths THEN paths
            ELSE Loop(i + 1,
                      Append(paths,
                             ExecutionPath(Append(SubSeq(constraints, 1, i + 1),
                                                  _negate(constraints[i + 1])))))
    IN  Loop(0, <<ExecutionPath(constraints)>>)

_gen_paths(constraints, max_paths) ==
    GenLoop(constraints, max_paths, 0, <<ExecutionPath(constraints)>>)

--------------------------------------------------------------------------
(* 64-bit words: BitVec(name, 64) and the Python ints as_long() returns *)

\* two's complement word of a (small) Python int, as z3 coerces an operand
Word64(n) ==
    [i \in 1..8 |-> IF i <= 4 THEN (n \div (256 ^ (i - 1))) % 256
                    ELSE IF n < 0 THEN 255 ELSE 0]

INT64_MIN == <<0, 0, 0, 0, 0, 0, 0, 128>>
INT64_MAX == <<255, 255, 255, 255, 255, 255, 255, 127>>

IsNegative(w) == w[8] >= 128

\* a < b as unsigned numbers
ULess(a, b) ==
    \E i \in 1..8 : a[i] < b[i] /\ \A j \in (i + 1)..8 : a[j] = b[j]

\* a < b as signed numbers: what <, >, <=, >= of z3 mean on bit-vectors
SLess(a, b) ==
    IF IsNegative(a) # IsNegative(b) THEN IsNegative(a) ELSE ULess(a, b)

Bit(byte, k) == (byte \div (2 ^ k)) % 2

\* (a & b) != 0
AndNonZero(a, b) ==
    \E i \in 1..8 : \E k \in 0..7 : Bit(a[i], k) = 1 /\ Bit(b[i], k) = 1

--------------------------------------------------------------------------
(* PathConstraint.to_z3 and ExecutionPath.solve *)

\* the truth of the z3 formula of constraint c when its variable has the
\* value var (a word)
to_z3(c, var) ==
    LET t == c.constraint_type
    IN  CASE t = "eq"    -> var = Word64(c.value[1])
          [] t = "neq"   -> var # Word64(c.value[1])
          [] t = "lt"    -> SLess(var, Word64(c.value[1]))
          [] t = "gt"    -> SLess(Word64(c.value[1]), var)
          [] t = "le"    -> ~SLess(Word64(c.value[1]), var)
          [] t = "ge"    -> ~SLess(var, Word64(c.value[1]))
          [] t = "null"  -> var # Word64(0)
          [] t = "flags" -> AndNonZero(var, Word64(c.value[1]))
          [] OTHER       -> TRUE

\* z3_vars after the loop of solve: one symbol per distinct variable name
Z3Vars(path) == { path.constraints[i].var_name : i \in 1..Len(path.constraints) }

\* The values a model may give a variable: the values of the window about 0
\* and the two extremes.  The operands are 0 and 1 and every constraint
\* reads one variable, so a conjunction that some 64-bit value satisfies is
\* satisfied by -1, 0, 1 or 3: a window of 3 or more decides satisfiability
\* exactly.
ModelValues ==
    { Word64(n) : n \in (-SolverWindow)..SolverWindow } \cup {INT64_MIN, INT64_MAX}

\* the values of variable v that satisfy every constraint of the path on v
Feasible(path, v) ==
    { w \in ModelValues :
        \A i \in 1..Len(path.constraints) :
            path.constraints[i].var_name = v => to_z3(path.constraints[i], w) }

\* the models z3 may report for the conjunction of the path: every
\* constraint reads one variable, so they are the assignments of a feasible
\* value to each variable
Models(path) ==
    { m \in [Z3Vars(path) -> ModelValues] :
        \A v \in Z3Vars(path) : m[v] \in Feasible(path, v) }

\* solver.check() == sat
Sat(path) == \A v \in Z3Vars(path) : Feasible(path, v) # {}

\* what solve() may return: None (unsat) or {v: model.eval(z).as_long()}
SolveOutcomes(path) ==
    IF ~Sat(path) THEN {None} ELSE { Some(m) : m \in Models(path) }

--------------------------------------------------------------------------
(* ConcolicEngine._sol_to_bytes *)

\* bytearray(4096), and the shortest buffer returned
BufferCapacity == 4096
MinLength == 1024

\* a str as the sequence of its characters; needle in hay
Contains(needle, hay) ==
    \E k \in 1..(Len(hay) - Len(needle) + 1) :
        SubSeq(hay, k, k + Len(needle) - 1) = needle

\* the struct format chosen from arg_type: its size in bytes
PackWidth(arg_type) ==
    IF Contains(<<"6", "4">>, arg_type) THEN 8
    ELSE IF Contains(<<"3", "2">>, arg_type) THEN 4
    ELSE IF Contains(<<"1", "6">>, arg_type) THEN 2
    ELSE IF Contains(<<"8">>, arg_type) THEN 1
    ELSE 4

\* the advance of an IN argument whose variable is not in the solution
PlaceholderWidth == 8

\* An entry of Arguments is [arg_dir, variable, arg_type]; a missing arg_dir
\* key is the value NoDir.  A buffer is [len, nz]: its length and the set of
\* <<position, byte>> of its non-zero bytes (positions from 0).
NoDir == "<missing>"

ArgInfo(arg_dir, variable, arg_type) ==
    [arg_dir |-> arg_dir, variable |-> variable, arg_type |-> arg_type]

\* struct.pack_into with a big-endian format ('>Q', '>I', '>H')
PackIntoBigEndian(st, w, val, arg) ==
    IF st.offset + w > BufferCapacity
    THEN [st EXCEPT !.raised = TRUE]
    ELSE [offset |-> st.offset + w,
          nz |-> { b \in st.nz : b[1] < st.offset \/ b[1] >= st.offset + w }
                 \cup { <<st.offset + w - k, val[k]>> : k \in { j \in 1..w : val[j] # 0 } },
          raised |-> FALSE,
          slots |-> Append(st.slots,
                           [arg |-> arg, offset |-> st.offset, width |-> w,
                            written |-> TRUE])]

\* struct.pack_into(fmt, buf, offset, val & mask), fmt of w bytes: fails
\* when the w bytes do not fit in the buffer, and else stores the w low
\* bytes of val least significant first.  st is the state of the loop:
\* [offset, nz, raised, slots], slots recording <<argument number, offset,
\* advance, written>> of every IN argument visited.
pack_into(st, w, val, arg) ==
    IF st.offset + w > BufferCapacity
    THEN [st EXCEPT !.raised = TRUE]
    ELSE [offset |-> st.offset + w,
          nz |-> { b \in st.nz : b[1] < st.offset \/ b[1] >= st.offset + w }
                 \cup { <<st.offset + k - 1, val[k]>> : k \in { j \in 1..w : val[j] # 0 } },
          raised |-> FALSE,
          slots |-> Append(st.slots,
                           [arg |-> arg, offset |-> st.offset, width |-> w,
                            written |-> TRUE])]

\* an iteration that passes over the OUT arguments only
EncodeArgSkipsOut(solution, arg_info, arg, st) ==
    IF arg_info.arg_dir = "OUT" THEN st
    ELSE IF arg_info.variable \in DOMAIN solution
         THEN pack_into(st, PackWidth(arg_info.arg_type),
                        solution[arg_info.variable], arg)
         ELSE [st EXCEPT !.offset = st.offset + PlaceholderWidth,
                         !.slots = Append(st.slots,
                                          [arg |-> arg, offset |-> st.offset,
                                           width |-> PlaceholderWidth,
                                           written |-> FALSE])]

\* one iteration of the for loop, for argument number arg
EncodeArg(solution, arg_info, arg, st) ==
    IF arg_info.arg_dir # "IN" THEN st
    ELSE IF arg_info.variable \in DOMAIN solution
         THEN pack_into(st, PackWidth(arg_info.arg_type),
                        solution[arg_info.variable], arg)
         ELSE [st EXCEPT !.offset = st.offset + PlaceholderWidth,
                         !.slots = Append(st.slots,
                                          [arg |-> arg, offset |-> st.offset,
                                           width |-> PlaceholderWidth,
                                           written |-> FALSE])]

\* the for loop over Arguments in manifest order, for the arguments numbered
\* lo..hi; an exception ends it.  The range is folded in two halves, left
\* before right, which visits the arguments in the order of the loop
RECURSIVE EncodeLoop(_, _, _, _, _)
EncodeLoop(solution, arguments, lo, hi, st) ==
    IF lo > hi \/ st.raised THEN st
    ELSE IF lo = hi THEN EncodeArg(solution, arguments[lo], lo, st)
    ELSE LET mid == (lo + hi) \div 2
             left == EncodeLoop(solution, arguments, lo, mid, st)
         IN  EncodeLoop(solution, arguments, mid + 1, hi, left)

\* the result: [raised |-> TRUE] when struct.error leaves the function,
\* else the bytes buf[:max(offset, 1024)] of the 4096-byte buffer
_sol_to_bytes(solution, func_data) ==
    LET st == EncodeLoop(solution, func_data.Arguments,
                         1, Len(func_data.Arguments),
                         [offset |-> 0, nz |-> {}, raised |-> FALSE, slots |-> <<>>])
        len == Min(BufferCapacity, Max(st.offset, MinLength))
    IN  IF st.raised
        THEN [raised |-> TRUE, slots |-> st.slots]
        ELSE [raised |-> FALSE,
              data |-> [len |-> len, nz |-> { b \in st.nz : b[1] < len }],
              offset |-> st.offset,
              slots |-> st.slots]

--------------------------------------------------------------------------
(* Input sets of the pure-function harnesses *)

RECURSIVE SeqsUpTo(_, _)
SeqsUpTo(S, n) ==
    IF n = 0 THEN {<<>>}
    ELSE LET shorter == SeqsUpTo(S, n - 1)
         IN  shorter \cup { Append(s, x) : <<s, x>> \in
                              { t \in shorter : Len(t) = n - 1 } \X S }

\* the predicates of a hint list (no location) ...
HintPreds == PredsOver({"X"}, {NoLocation})

\* ... and of an extracted list: the predicate found on line i of the body
\* of function fn carries the location f"{fn}:{i}"
Tagged(cs, fn) ==
    [i \in 1..Len(cs) |->
        PathConstraint(cs[i].var_name, cs[i].constraint_type, cs[i].value,
                       Location(fn, i))]

\* the predicate lists handed to _gen_paths: hint lists and extracted lists
EnumInputs ==
    LET hints == SeqsUpTo(HintPreds, MaxPreds)
    IN  hints \cup { Tagged(cs, "F") : cs \in hints }

NegInputs == PredsOver({"X", "Y"}, {NoLocation, Location("F", 3)})

\* arg_type tokens
UINT64 == <<"U", "I", "N", "T", "6", "4">>
UINT32 == <<"U", "I", "N", "T", "3", "2">>
UINT16 == <<"U", "I", "N", "T", "1", "6">>
UINT8 == <<"U", "I", "N", "T", "8">>
UINTN == <<"U", "I", "N", "T", "N">>

\* the Arguments entries tried: IN arguments of every width backed by X or
\* Y, and arguments that are not IN
ArgInfos ==
    { ArgInfo("IN", v, t) : <<v, t>> \in {"X", "Y"} \X {UINT64, UINT32, UINT16, UINT8, UINTN} }
    \cup { ArgInfo("OUT", "X", UINT32), ArgInfo("IN_OUT", "Y", UINT16),
           ArgInfo(NoDir, "Y", UINT64) }

FuncData(name, arguments) == [Function |-> name, Arguments |-> arguments]

\* a manifest entry whose first PadArgs arguments are 64-bit IN arguments
\* backed by a variable no predicate names, followed by tail
Padded(tail) ==
    [i \in 1..(PadArgs + Len(tail)) |->
        IF i <= PadArgs THEN ArgInfo("IN", "Pad", UINT64) ELSE tail[i - PadArgs]]

LongTails ==
    SeqsUpTo({ArgInfo("IN", "X", UINT64), ArgInfo("IN", "X", UINT8)}, 2)

EncManifests ==
    { FuncData("F", a) : a \in SeqsUpTo(ArgInfos, MaxArgs) }
    \cup { FuncData("F", Padded(t)) : t \in LongTails }

\* solved assignments over a subset of {X, Y}
EncValues == {Word64(1), Word64(258), Word64(-2)}

EncSolutions == UNION { [D -> EncValues] : D \in SUBSET {"X", "Y"} }

\* the solution without variable v
Without(solution, v) == [u \in DOMAIN solution \ {v} |-> solution[u]]

\* the paths handed to solve: conjunctions over two variables
SolveInputs ==
    { ExecutionPath(cs) :
        cs \in SeqsUpTo(PredsOver({"X", "Y"}, {NoLocation}), MaxPathLen) }

--------------------------------------------------------------------------
(* Harness of _negate *)

IdleEngine ==
    /\ firness_data = <<>>
    /\ constraint_cache = EmptyDict
    /\ last_hint = EmptyDict
    /\ log = <<>>
    /\ solver = "unsigned_min"
    /\ pc = "idle"
    /\ gi_max_paths = 0
    /\ fi = 0
    /\ gi_constraints = <<>>
    /\ gi_paths = <<>>
    /\ gi_idx = 0
    /\ gi_sol = None
    /\ gi_data = None
    /\ gi_count = 0
    /\ files = EmptyDict
    /\ writes = <<>>
    /\ processed = <<>>
    /\ ret = <<>>

IdleEnum == gp_in = [constraints |-> <<>>, max_paths |-> 0] /\ gp_out = <<>>
IdleNeg == neg_hist = <<>>
IdleSolve == sv_in = ExecutionPath(<<>>) /\ sv_out = <<>>
IdleEnc ==
    /\ enc_in = [solution |-> <<>>, func_data |-> [Function |-> "", Arguments |-> <<>>]]
    /\ enc_calls = <<>>
    /\ enc_in_only = <<>>
\* the harness of the batch order
IdleOrd ==
    /\ ord_in = <<>>
    /\ ord_out = <<>>

\* the wrapper firness_enhanced.py
IdleWr ==
    /\ wr_args = <<>>
    /\ wr_env = <<>>
    /\ wr_pc = "off"
    /\ wr_success = FALSE
    /\ wr_out = <<>>
    /\ wr_status = <<>>
    /\ wr_engine = <<>>
    /\ wr_dir = FALSE

\* the heap of the enumerator's objects
IdleHp ==
    /\ hp_heap = [preds |-> <<>>, lists |-> <<>>]
    /\ hp_call = [constraints |-> 0, max_paths |-> 0]
    /\ hp_paths = <<>>
    /\ hp_snap = <<>>
    /\ hp_touched = {}
    /\ hp_changes = 0

\* crash_triage.py
IdleCt ==
    /\ ct_args = <<>>
    /\ ct_logs = <<>>
    /\ ct_crashes = <<>>
    /\ ct_buckets = EmptyDict
    /\ ct_pc = "off"
    /\ ct_reports = <<>>

\* protocol_mutators.py
IdleMu ==
    /\ mu_in = <<>>
    /\ mu_data = <<>>
    /\ mu_mutations = <<>>
    /\ mu_i = 0
    /\ mu_pc = "off"
    /\ mu_draws = <<>>

IdleTools == IdleOrd /\ IdleWr /\ IdleHp /\ IdleCt /\ IdleMu

IdleExt ==
    /\ ext_in = [guards |-> <<>>,
                 shape |-> [found |-> FALSE, open |-> FALSE, closed |-> FALSE],
                 before |-> "none"]
    /\ ext_out = <<>>

InitNeg ==
    /\ IdleEngine
    /\ IdleExt
    /\ IdleTools
    /\ neg_hist \in { <<p>> : p \in NegInputs }
    /\ IdleEnum
    /\ IdleSolve
    /\ IdleEnc

Negate ==
    /\ Len(neg_hist) \in 1..2
    /\ neg_hist' = Append(neg_hist, _negate(neg_hist[Len(neg_hist)]))
    /\ UNCHANGED <<gp_in, gp_out, sv_in, sv_out, enc_in, enc_calls,
                   enc_in_only, ext_in, ext_out, engineVars, toolVars>>

NextNeg == Negate

SpecNeg == InitNeg /\ [][NextNeg]_vars

(* Harness of _gen_paths *)

InitEnum ==
    /\ IdleEngine
    /\ IdleExt
    /\ IdleTools
    /\ gp_in \in [constraints : EnumInputs,
                  max_paths : 0..MaxBudget]
    /\ gp_out = <<>>
    /\ IdleNeg
    /\ IdleSolve
    /\ IdleEnc

GenPaths ==
    /\ gp_out = <<>>
    /\ gp_out' = <<_gen_paths(gp_in.constraints, gp_in.max_paths)>>
    /\ UNCHANGED <<neg_hist, gp_in, sv_in, sv_out, enc_in, enc_calls,
                   enc_in_only, ext_in, ext_out, engineVars, toolVars>>

NextEnum == GenPaths

SpecEnum == InitEnum /\ [][NextEnum]_vars

(* Harness of ExecutionPath.solve *)

InitSolve ==
    /\ IdleEngine
    /\ IdleExt
    /\ IdleTools
    /\ sv_in \in SolveInputs
    /\ sv_out = <<>>
    /\ IdleNeg
    /\ IdleEnum
    /\ IdleEnc

Solve ==
    /\ sv_out = <<>>
    /\ \E r \in SolveOutcomes(sv_in) : sv_out' = <<r>>
    /\ UNCHANGED <<neg_hist, gp_in, gp_out, sv_in, enc_in, enc_calls,
                   enc_in_only, ext_in, ext_out, engineVars, toolVars>>

NextSolve == Solve

SpecSolve == InitSolve /\ [][NextSolve]_vars

(* Harness of _sol_to_bytes: one call with the solution, then one with the
   same manifest and the solution less one variable *)

InitEnc ==
    /\ IdleEngine
    /\ IdleExt
    /\ IdleTools
    /\ enc_in \in [solution : EncSolutions, func_data : EncManifests]
    /\ enc_calls = <<>>
    /\ enc_in_only = <<>>
    /\ IdleNeg
    /\ IdleEnum
    /\ IdleSolve

Encode ==
    /\ enc_calls = <<>>
    /\ enc_calls' = <<[solution |-> enc_in.solution,
                       result |-> _sol_to_bytes(enc_in.solution, enc_in.func_data)]>>
    /\ UNCHANGED <<neg_hist, gp_in, gp_out, sv_in, sv_out, enc_in, enc_in_only,
                   ext_in, ext_out, engineVars, toolVars>>

EncodeWithout ==
    /\ Len(enc_calls) = 1
    /\ \E v \in DOMAIN enc_in.solution :
         enc_calls' = Append(enc_calls,
                             [solution |-> Without(enc_in.solution, v),
                              result |-> _sol_to_bytes(Without(enc_in.solution, v),
                                                       enc_in.func_data)])
    /\ UNCHANGED <<neg_hist, gp_in, gp_out, sv_in, sv_out, enc_in, enc_in_only,
                   ext_in, ext_out, engineVars, toolVars>>

\* the manifest entry with the arguments that are not IN removed
InOnly(func_data) ==
    LET IsIn(arg_info) == arg_info.arg_dir = "IN"
    IN  FuncData(func_data.Function, SelectSeq(func_data.Arguments, IsIn))

\* the call with the full solution and the IN arguments alone
EncodeInOnly ==
    /\ enc_calls # <<>>
    /\ enc_in_only = <<>>
    /\ enc_in_only' = <<_sol_to_bytes(enc_in.solution, InOnly(enc_in.func_data))>>
    /\ UNCHANGED <<neg_hist, gp_in, gp_out, sv_in, sv_out, enc_in, enc_calls,
                   ext_in, ext_out, engineVars, toolVars>>

NextEnc == Encode \/ EncodeWithout \/ EncodeInOnly

SpecEnc == InitEnc /\ [][NextEnc]_vars

--------------------------------------------------------------------------
(* extract_constraints.  A text is a sequence of characters; positions    *)
(* are counted from 0 as in the code.                                      *)

At(text, i) == text[i + 1]
\* text[a:b]
Slice(text, a, b) == SubSeq(text, a + 1, b)
HasAt(text, lit, i) ==
    i + Len(lit) <= Len(text) /\ Slice(text, i, i + Len(lit)) = lit
SetMin(S) == CHOOSE x \in S : \A y \in S : x <= y
SetMax(S) == CHOOSE x \in S : \A y \in S : x >= y

\* text.find(lit, from)
Find(text, lit, from) ==
    LET hits == { i \in from..(Len(text) - Len(lit)) : HasAt(text, lit, i) }
    IN  IF hits = {} THEN -1 ELSE SetMin(hits)

\* the str of a sequence of characters
RECURSIVE Str(_)
Str(chars) == IF chars = <<>> THEN "" ELSE chars[1] \o Str(Tail(chars))

\* the character classes of the patterns
Space == {" ", "\t", "\n", "\r", "\f"}
Digits == {"0", "1", "2", "3", "4", "5", "6", "7", "8", "9"}
HexDigits == Digits \cup {"a", "b", "c", "d", "e", "f",
                          "A", "B", "C", "D", "E", "F"}
Letters == {"a", "b", "c", "d", "e", "f", "g", "h", "i", "j", "k", "l", "m",
            "n", "o", "p", "q", "r", "s", "t", "u", "v", "w", "x", "y", "z",
            "A", "B", "C", "D", "E", "F", "G", "H", "I", "J", "K", "L", "M",
            "N", "O", "P", "Q", "R", "S", "T", "U", "V", "W", "X", "Y", "Z"}
WordChars == Letters \cup Digits \cup {"_"}
NumChars == Digits \cup {"x"}

\* the end of the longest run of characters of a class from position i
RECURSIVE Skip(_, _, _)
Skip(text, i, class) ==
    IF i < Len(text) /\ At(text, i) \in class
    THEN Skip(text, i + 1, class) ELSE i

DigitVal(ch) ==
    CASE ch \in Digits -> CHOOSE n \in 0..9 : ToString(n) = ch
      [] ch \in {"a", "A"} -> 10
      [] ch \in {"b", "B"} -> 11
      [] ch \in {"c", "C"} -> 12
      [] ch \in {"d", "D"} -> 13
      [] ch \in {"e", "E"} -> 14
      [] ch \in {"f", "F"} -> 15

RECURSIVE NumberOf(_, _)
NumberOf(digits, base) ==
    IF digits = <<>> THEN 0
    ELSE NumberOf(SubSeq(digits, 1, Len(digits) - 1), base) * base
         + DigitVal(digits[Len(digits)])

AllIn(text, class) == \A i \in 1..Len(text) : text[i] \in class

\* int(val, 0) for val of digits and "x": None stands for ValueError
IntBase0(val) ==
    IF AllIn(val, Digits)
    THEN IF val[1] # "0" \/ AllIn(val, {"0"})
         THEN Some(NumberOf(val, 10)) ELSE None
    ELSE IF /\ Len(val) >= 3
            /\ HasAt(val, <<"0", "x">>, 0)
            /\ AllIn(Slice(val, 2, Len(val)), HexDigits)
         THEN Some(NumberOf(Slice(val, 2, Len(val)), 16)) ELSE None

\* int(val, 16) for val that starts with "0x": None stands for ValueError
\* (digit groups separated by "_" are not modelled; they count as errors)
IntBase16(val) ==
    IF Len(val) >= 3 /\ AllIn(Slice(val, 2, Len(val)), HexDigits)
    THEN Some(NumberOf(Slice(val, 2, Len(val)), 16)) ELSE None

\* re.search(rf'{function_name}\s*\(', content): match.end(), -1 without a
\* match.  function_name is a str; the name matches at p when the
\* characters from p spell it.
NameEnds(content, function_name, p) ==
    { e \in (p + 1)..Len(content) : Str(Slice(content, p, e)) = function_name }

FunctionMatches(content, function_name) ==
    { p \in 0..(Len(content) - 1) :
        \E e \in NameEnds(content, function_name, p) :
            LET q == Skip(content, e, Space)
            IN  q < Len(content) /\ At(content, q) = "(" }

FunctionMatchEnd(content, function_name) ==
    IF FunctionMatches(content, function_name) = {} THEN -1
    ELSE LET p == SetMin(FunctionMatches(content, function_name))
             e == CHOOSE e \in NameEnds(content, function_name, p) : TRUE
         IN  Skip(content, e, Space) + 1

\* while depth > 0 and end < len(content): ...; the value of end after it
RECURSIVE BodyEnd(_, _, _)
BodyEnd(content, depth, end) ==
    IF depth > 0 /\ end < Len(content)
    THEN BodyEnd(content,
                 CASE At(content, end) = "{" -> depth + 1
                   [] At(content, end) = "}" -> depth - 1
                   [] OTHER -> depth,
                 end + 1)
    ELSE end

\* text.split('\n')
RECURSIVE SplitLines(_)
SplitLines(text) ==
    LET i == Find(text, <<"\n">>, 0)
    IN  IF i = -1 THEN <<text>>
        ELSE <<Slice(text, 0, i)>> \o SplitLines(Slice(text, i + 1, Len(text)))

\* line.strip()
Strip(line) ==
    LET kept == { i \in 0..(Len(line) - 1) : At(line, i) \notin Space }
    IN  IF kept = {} THEN <<>> ELSE Slice(line, SetMin(kept), SetMax(kept) + 1)

\* if\s*\(\s* matched at position p of a line: the position after it, -1
\* without a match
IfOpen(line, p) ==
    IF ~HasAt(line, <<"i", "f">>, p) THEN -1
    ELSE LET q == Skip(line, p + 2, Space)
         IN  IF q < Len(line) /\ At(line, q) = "("
             THEN Skip(line, q + 1, Space) ELSE -1

\* re.search(r'if\s*\(\s*(\w+)\s*[!=]=\s*NULL', line): the positions where
\* the pattern matches, and group 1 of the match at p
NullAt(line, p) ==
    LET q == IfOpen(line, p)
        w == Skip(line, q, WordChars)
        r == Skip(line, w, Space)
    IN  /\ q # -1
        /\ w > q
        /\ r + 1 < Len(line)
        /\ At(line, r) \in {"!", "="}
        /\ At(line, r + 1) = "="
        /\ HasAt(line, <<"N", "U", "L", "L">>, Skip(line, r + 2, Space))

Group1(line, open) == Slice(line, open, Skip(line, open, WordChars))

\* the NULL checks of a line
NullChecks(line, function_name, i) ==
    LET hits == { p \in 0..(Len(line) - 1) : NullAt(line, p) }
    IN  IF /\ Contains(<<"i", "f">>, line)
           /\ \/ Contains(<<"=", "=", " ", "N", "U", "L", "L">>, line)
              \/ Contains(<<"!", "=">>, line)
           /\ hits # {}
        THEN <<PathConstraint(
                 Str(Group1(line, IfOpen(line, SetMin(hits)))),
                 "null", None, Location(function_name, i))>>
        ELSE <<>>

\* re.search(r'if\s*\(\s*\(?(\w+)\s*&\s*(0x[0-9a-fA-F]+|\w+)', line)
FlagOpen(line, p) ==
    LET q == IfOpen(line, p)
    IN  IF q # -1 /\ q < Len(line) /\ At(line, q) = "(" THEN q + 1 ELSE q

\* the position after "&\s*" of the match at p, -1 without a match
FlagValueStart(line, p) ==
    LET q == FlagOpen(line, p)
        w == Skip(line, q, WordChars)
        r == Skip(line, w, Space)
    IN  IF q # -1 /\ w > q /\ r < Len(line) /\ At(line, r) = "&"
        THEN Skip(line, r + 1, Space) ELSE -1

\* group 2 at position t: the first alternative that matches
FlagValue(line, t) ==
    IF HasAt(line, <<"0", "x">>, t) /\ Skip(line, t + 2, HexDigits) > t + 2
    THEN Slice(line, t, Skip(line, t + 2, HexDigits))
    ELSE Slice(line, t, Skip(line, t, WordChars))

FlagAt(line, p) ==
    LET t == FlagValueStart(line, p)
    IN  t # -1 /\ FlagValue(line, t) # <<>>

\* the flag checks of a line
FlagChecks(line, function_name, i) ==
    LET hits == { p \in 0..(Len(line) - 1) : FlagAt(line, p) }
        p == SetMin(hits)
        val == FlagValue(line, FlagValueStart(line, p))
        val_int == IF HasAt(val, <<"0", "x">>, 0) THEN IntBase16(val)
                   ELSE Some(0)
    IN  IF /\ Contains(<<"i", "f">>, line)
           /\ Contains(<<"&">>, line)
           /\ ~Contains(<<"&", "&">>, line)
           /\ hits # {}
           /\ val_int # None
        THEN <<PathConstraint(Str(Group1(line, FlagOpen(line, p))),
                              "flags", val_int, Location(function_name, i))>>
        ELSE <<>>

\* the operators of the comparison loop, in its order
ComparisonOps ==
    << <<"<", "lt">>, <<">", "gt">>, <<"<=", "le">>, <<">=", "ge">>,
       <<"==", "eq">>, <<"!=", "neq">> >>

OpChars(op) ==
    CASE op = "<" -> <<"<">>
      [] op = ">" -> <<">">>
      [] op = "<=" -> <<"<", "=">>
      [] op = ">=" -> <<">", "=">>
      [] op = "==" -> <<"=", "=">>
      [] op = "!=" -> <<"!", "=">>

\* re.search(rf'if\s*\(\s*(\w+)\s*{re.escape(op)}\s*([0-9x]+)', line): the
\* position of group 2 of the match at p, -1 without a match
CompValueStart(line, op, p) ==
    LET q == IfOpen(line, p)
        w == Skip(line, q, WordChars)
        r == Skip(line, w, Space)
        t == Skip(line, r + Len(OpChars(op)), Space)
    IN  IF /\ q # -1
           /\ w > q
           /\ HasAt(line, OpChars(op), r)
           /\ Skip(line, t, NumChars) > t
        THEN t ELSE -1

\* the comparison of a line for one operator
Comparison(line, op, ctype, function_name, i) ==
    LET hits == { p \in 0..(Len(line) - 1) : CompValueStart(line, op, p) # -1 }
        p == SetMin(hits)
        t == CompValueStart(line, op, p)
        val_int == IntBase0(Slice(line, t, Skip(line, t, NumChars)))
    IN  IF /\ Contains(<<"i", "f">>, line)
           /\ Contains(OpChars(op), line)
           /\ hits # {}
           /\ val_int # None
        THEN <<PathConstraint(Str(Group1(line, IfOpen(line, p))),
                              ctype, val_int, Location(function_name, i))>>
        ELSE <<>>

RECURSIVE Comparisons(_, _, _, _)
Comparisons(line, k, function_name, i) ==
    IF k > Len(ComparisonOps) THEN <<>>
    ELSE Comparison(line, ComparisonOps[k][1], ComparisonOps[k][2],
                    function_name, i)
         \o Comparisons(line, k + 1, function_name, i)

\* the body of the loop over the lines, from line i
RECURSIVE ScanLines(_, _, _)
ScanLines(lines, i, function_name) ==
    IF i >= Len(lines) THEN <<>>
    ELSE LET line == Strip(lines[i + 1])
         IN  NullChecks(line, function_name, i)
             \o FlagChecks(line, function_name, i)
             \o Comparisons(line, 1, function_name, i)
             \o ScanLines(lines, i + 1, function_name)

\* a source file that does not exist; a file that exists is Some(content)
NoFile == None

\* extract_constraints(source_file, function_name), source_file given by
\* its content
extract_constraints(source_file, function_name) ==
    IF source_file = NoFile THEN <<>>
    ELSE LET content == source_file[1]
             m_end == FunctionMatchEnd(content, function_name)
             start == Find(content, <<"{">>, m_end)
             end == BodyEnd(content, 1, start + 1)
         IN  IF m_end = -1 THEN <<>>
             ELSE IF start = -1 THEN <<>>
             ELSE ScanLines(SplitLines(Slice(content, start, end)), 0,
                            function_name)

--------------------------------------------------------------------------
(* Harness of extract_constraints: one call on a source text made of a    *)
(* function header, an opening brace, guard lines and a closing brace;    *)
(* the header may name another function, and either brace may be missing; *)
(* other functions may come before the definition.                        *)

\* a numeric literal: its characters and the number it denotes (None when
\* it denotes none)
Literal(text, value) == [text |-> text, value |-> value]

Literals ==
    { Literal(<<"0">>, Some(0)), Literal(<<"4">>, Some(4)),
      Literal(<<"1", "0">>, Some(10)), Literal(<<"0", "x", "1", "0">>, Some(16)),
      Literal(<<"0", "x", "1", "F">>, Some(31)),
      Literal(<<"0", "x", "f", "f">>, Some(255)),
      Literal(<<"0", "8">>, None) }

NullLiteral == Literal(<<"N", "U", "L", "L">>, None)

\* a guard line "if (var op lit)"
Guard(form, var, op, lit) == [form |-> form, var |-> var, op |-> op, lit |-> lit]

Guards ==
    { Guard("null", <<"P">>, op, NullLiteral) : op \in {"==", "!="} }
    \cup { Guard("mask", <<"X">>, "&", lit) : lit \in Literals }
    \cup { Guard("cmp", <<"X">>, ComparisonOps[k][1], lit) :
             <<k, lit>> \in (1..Len(ComparisonOps)) \X Literals }

\* the guard lines that come before the last one
LeadGuards ==
    { Guard("cmp", <<"Y">>, "<", Literal(<<"0", "8">>, None)),
      Guard("null", <<"Q">>, "!=", NullLiteral),
      Guard("mask", <<"Y">>, "&", Literal(<<"0", "x", "1", "0">>, Some(16))) }

GuardOpChars(op) == IF op = "&" THEN <<"&">> ELSE OpChars(op)

RenderGuard(g) ==
    <<" ", "i", "f", " ", "(">> \o g.var \o <<" ">> \o GuardOpChars(g.op)
    \o <<" ">> \o g.lit.text \o <<")">>

RECURSIVE RenderLines(_)
RenderLines(guards) ==
    IF guards = <<>> THEN <<>>
    ELSE <<"\n">> \o RenderGuard(Head(guards)) \o RenderLines(Tail(guards))

\* what the source text holds before the definition of F: nothing; a
\* prototype of F and the definition of H; the definition of AF; a function
\* H that calls F and then opens a block; a function H that calls F
BeforeKinds == {"none", "prototype", "suffix", "caller", "call"}

BeforeText(before) ==
    CASE before = "none" -> <<>>
      [] before = "prototype" ->
        <<"F", "(", "X", ")", ";", "\n", "H", "(", "X", ")", " ", "{",
          "\n", " ", "i", "f", " ", "(", "Z", " ", "<", " ", "4", ")",
          "\n", "}", "\n">>
      [] before = "suffix" ->
        <<"A", "F", "(", "X", ")", " ", "{", "\n", " ", "i", "f", " ", "(",
          "Z", " ", "<", " ", "4", ")", "\n", "}", "\n">>
      [] before = "caller" ->
        <<"H", "(", "X", ")", " ", "{", "\n", " ", "F", "(", "X", ")", ";",
          "\n", " ", "{", "\n", " ", "i", "f", " ", "(", "Z", " ", "<",
          " ", "4", ")", "\n", " ", "}", "\n", "}", "\n">>
      [] before = "call" ->
        <<"H", "(", "X", ")", " ", "{", "\n", " ", "F", "(", "X", ")", ";",
          "\n", "}", "\n">>

\* the source text of an input: guard i is line i of the function body
SourceOf(in) ==
    BeforeText(in.before)
    \o (IF in.shape.found THEN <<"F", "(", "X", ")">> ELSE <<"H", "(", "X", ")">>)
    \o (IF in.shape.open THEN <<" ", "{">> ELSE <<";">>)
    \o RenderLines(in.guards)
    \o (IF in.shape.closed THEN <<"\n", "}", "\n">> ELSE <<"\n">>)

ExtInputs ==
    [guards : { lead \o <<g>> :
                  <<lead, g>> \in SeqsUpTo(LeadGuards, MaxGuards - 1) \X Guards },
     shape : [found : BOOLEAN, open : BOOLEAN, closed : BOOLEAN],
     before : BeforeKinds]

InitExt ==
    /\ IdleEngine
    /\ IdleTools
    /\ ext_in \in { in \in ExtInputs :
                     in.before # "none" =>
                         in.shape.found /\ in.shape.open /\ in.shape.closed }
    /\ ext_out = <<>>
    /\ IdleNeg
    /\ IdleEnum
    /\ IdleSolve
    /\ IdleEnc

\* extract_constraints(source_file, "F")
Extract ==
    /\ ext_out = <<>>
    /\ ext_out' = <<extract_constraints(Some(SourceOf(ext_in)), "F")>>
    /\ UNCHANGED <<neg_hist, gp_in, gp_out, sv_in, sv_out, enc_in, enc_calls,
                   enc_in_only, ext_in, engineVars, toolVars>>

NextExt == Extract

SpecExt == InitExt /\ [][NextExt]_vars

\* The source corpus of the batch: one file,
\*   F(X) {
\*    if (X != NULL)
\*    if (Y > 0)
\*   }
\*   G(X) {
\*   }
SourceFile ==
    Some(<<"F", "(", "X", ")", " ", "{", "\n", " ", "i", "f", " ", "(", "X",
           " ", "!", "=", " ", "N", "U", "L", "L", ")", "\n", " ", "i", "f",
           " ", "(", "Y", " ", ">", " ", "0", ")", "\n", "}", "\n", "G",
           "(", "X", ")", " ", "{", "\n", "}", "\n">>)

--------------------------------------------------------------------------
(* The engine: add_hints and generate_inputs *)

\* z3 is deterministic: the same conjunction gets the same model, but which
\* of the models it reports is not specified.  The engine's solver follows
\* one of these orders, fixed when the engine starts.
SolverOrders == {"unsigned_min", "unsigned_max"}

Pick(order, S) ==
    CASE order = "unsigned_min" -> CHOOSE w \in S : \A u \in S : ~ULess(u, w)
      [] order = "unsigned_max" -> CHOOSE w \in S : \A u \in S : ~ULess(w, u)

\* a solver that passes over the != conjuncts of a path
SolveIgnoresNeq(order, path) ==
    LET IsKept(c) == c.constraint_type # "neq"
        kept == ExecutionPath(SelectSeq(path.constraints, IsKept))
    IN  IF ~Sat(kept) THEN None
        ELSE Some([v \in Z3Vars(path) |->
                     IF v \in Z3Vars(kept) THEN Pick(order, Feasible(kept, v))
                     ELSE Word64(0)])

\* path.solve() under an order: one of SolveOutcomes(path)
solve(order, path) ==
    IF ~Sat(path) THEN None
    ELSE Some([v \in Z3Vars(path) |-> Pick(order, Feasible(path, v))])

\* "if sol:" - neither None nor an empty dict
Truthy(sol) == sol # None /\ DOMAIN sol[1] # {}

\* a file name numbered by the artifacts written so far instead of by idx
FileNameByCount(func, i) == <<func, gi_count>>

\* f"{func}_p{idx}.bin" under output_dir
FileName(func, i) == <<func, i>>

FuncNames == {"F", "G"}

\* the hint lists registered: the list of main, scenario B of the design,
\* a list no value satisfies, and an empty list
HintLists ==
    { <<PathConstraint("X", "null", None, NoLocation),
        PathConstraint("Y", "gt", Some(0), NoLocation)>>,
      <<PathConstraint("X", "eq", Some(1), NoLocation),
        PathConstraint("X", "neq", Some(1), NoLocation)>>,
      <<PathConstraint("X", "flags", Some(0), NoLocation)>>,
      <<>> }

\* The Arguments of the manifest entries.  firness_data holds each entry as
\* [Function, Arguments] with the Arguments dict given by its name here;
\* FuncDataOf gives the entry with the dict itself.
ArgumentsNamed(name) ==
    CASE name = "two_uint32" ->
           <<ArgInfo("IN", "X", UINT32), ArgInfo("IN", "Y", UINT32)>>
      [] name = "uint8_out" ->
           <<ArgInfo("IN", "Y", UINT8), ArgInfo("OUT", "X", UINT64)>>
      [] name = "long" ->
           Padded(<<ArgInfo("IN", "X", UINT64), ArgInfo("IN", "X", UINT64)>>)

FuncDataOf(entry) == FuncData(entry.Function, ArgumentsNamed(entry.Arguments))

ManifestEntries ==
    { FuncData("F", "two_uint32"), FuncData("F", "uint8_out"),
      FuncData("G", "long"), FuncData("", "two_uint32") }

\* the path budgets of the batch: one that cuts the enumeration, one that
\* does not
BatchBudgets == {MaxBudget - 2, MaxBudget}

\* ConcolicEngine(firness_json): the manifest is loaded, the cache is empty
Init ==
    /\ firness_data \in SeqsUpTo(ManifestEntries, MaxFuncs)
    /\ constraint_cache = EmptyDict
    /\ last_hint = EmptyDict
    /\ log = <<>>
    /\ solver \in SolverOrders
    /\ pc = "idle"
    /\ gi_max_paths = 0
    /\ fi = 0
    /\ gi_constraints = <<>>
    /\ gi_paths = <<>>
    /\ gi_idx = 0
    /\ gi_sol = None
    /\ gi_data = None
    /\ gi_count = 0
    /\ files = EmptyDict
    /\ writes = <<>>
    /\ processed = <<>>
    /\ ret = <<>>
    /\ IdleNeg
    /\ IdleEnum
    /\ IdleSolve
    /\ IdleEnc
    /\ IdleExt
    /\ IdleTools

\* a registry that keeps the first list registered for a name
AddHintsFirstWins(func_name, cs) ==
    /\ pc = "idle"
    /\ constraint_cache' = IF func_name \in DOMAIN constraint_cache
                           THEN constraint_cache
                           ELSE Put(constraint_cache, func_name, cs)
    /\ UNCHANGED <<firness_data, solver, pc, gi_max_paths, fi, gi_constraints,
                   gi_paths, gi_idx, gi_sol, gi_data, gi_count, files, writes,
                   processed, ret>>
    /\ UNCHANGED <<pureVars, toolVars>>

\* add_hints(func_name, constraints)
add_hints(func_name, cs) ==
    /\ pc = "idle"
    /\ constraint_cache' = Put(constraint_cache, func_name, cs)
    /\ UNCHANGED <<firness_data, solver, pc, gi_max_paths, fi, gi_constraints,
                   gi_paths, gi_idx, gi_sol, gi_data, gi_count, files, writes, processed,
                   ret>>
    /\ UNCHANGED <<pureVars, toolVars>>

\* a caller registers a hint list; the call is recorded
AddHints ==
    \E f \in FuncNames : \E cs \in HintLists :
        /\ add_hints(f, cs)
        /\ last_hint' = Put(last_hint, f, cs)
        /\ UNCHANGED log

\* an entry of the log: idx is 0 for a read
Event(kind, entry, idx) == [kind |-> kind, entry |-> entry, idx |-> idx]

\* generate_inputs(output_dir, max_paths) up to the outer loop
GenerateInputs ==
    /\ pc = "idle"
    /\ \E m \in BatchBudgets : gi_max_paths' = m
    /\ gi_count' = 0
    /\ fi' = 1
    /\ pc' = "for_func"
    /\ UNCHANGED <<last_hint, log>>
    /\ UNCHANGED <<firness_data, constraint_cache, solver, gi_constraints,
                   gi_paths, gi_idx, gi_sol, gi_data, files, writes, processed,
                   ret>>
    /\ UNCHANGED <<pureVars, toolVars>>

\* the constraints the outer loop reads for an entry
ConstraintsFor(func_data) ==
    IF func_data.Function = "" THEN <<>>
    ELSE Get(constraint_cache, func_data.Function, <<>>)

\* an entry without a name or without constraints: continue
FuncSkip ==
    /\ pc = "for_func"
    /\ fi <= Len(firness_data)
    /\ ConstraintsFor(firness_data[fi]) = <<>>
    /\ fi' = fi + 1
    /\ gi_constraints' = IF firness_data[fi].Function = "" THEN gi_constraints ELSE <<>>
    /\ processed' = Append(processed,
                           [func |-> firness_data[fi].Function,
                            constraints |-> <<>>, enumerated |-> FALSE])
    /\ log' = IF firness_data[fi].Function = "" THEN log
               ELSE Append(log, Event("read", fi, 0))
    /\ UNCHANGED last_hint
    /\ UNCHANGED <<firness_data, constraint_cache, solver, pc, gi_max_paths,
                   gi_paths, gi_idx, gi_sol, gi_data, gi_count, files, writes, ret>>
    /\ UNCHANGED <<pureVars, toolVars>>

\* an entry with constraints: the paths are generated
FuncEnumerate ==
    /\ pc = "for_func"
    /\ fi <= Len(firness_data)
    /\ ConstraintsFor(firness_data[fi]) # <<>>
    /\ gi_constraints' = ConstraintsFor(firness_data[fi])
    /\ gi_paths' = _gen_paths(ConstraintsFor(firness_data[fi]), gi_max_paths)
    /\ gi_idx' = 0
    /\ pc' = "for_path"
    /\ processed' = Append(processed,
                           [func |-> firness_data[fi].Function,
                            constraints |-> ConstraintsFor(firness_data[fi]),
                            enumerated |-> TRUE])
    /\ log' = Append(log, Event("read", fi, 0))
    /\ UNCHANGED last_hint
    /\ UNCHANGED <<firness_data, constraint_cache, solver, gi_max_paths, fi,
                   gi_sol, gi_data, gi_count, files, writes, ret>>
    /\ UNCHANGED <<pureVars, toolVars>>

\* the outer loop ends: the count is returned
BatchReturn ==
    /\ pc = "for_func"
    /\ fi > Len(firness_data)
    /\ pc' = "done"
    /\ ret' = <<gi_count>>
    /\ UNCHANGED <<last_hint, log>>
    /\ UNCHANGED <<firness_data, constraint_cache, solver, gi_max_paths, fi,
                   gi_constraints, gi_paths, gi_idx, gi_sol, gi_data, gi_count, files,
                   writes, processed>>
    /\ UNCHANGED <<pureVars, toolVars>>

\* the inner loop ends: next entry
PathsDone ==
    /\ pc = "for_path"
    /\ gi_idx >= Len(gi_paths)
    /\ fi' = fi + 1
    /\ pc' = "for_func"
    /\ UNCHANGED <<last_hint, log>>
    /\ UNCHANGED <<firness_data, constraint_cache, solver, gi_max_paths,
                   gi_constraints, gi_paths, gi_idx, gi_sol, gi_data, gi_count, files,
                   writes, processed, ret>>
    /\ UNCHANGED <<pureVars, toolVars>>

\* an inner loop that reads the registry again before each solve
PathSolveRereads ==
    /\ pc = "for_path"
    /\ gi_idx < Len(gi_paths)
    /\ gi_sol' = solve(solver, gi_paths[gi_idx + 1])
    /\ pc' = "solved"
    /\ log' = log \o <<Event("read", fi, 0), Event("solve", fi, gi_idx)>>
    /\ UNCHANGED last_hint
    /\ UNCHANGED <<firness_data, constraint_cache, solver, gi_max_paths, fi,
                   gi_constraints, gi_paths, gi_idx, gi_data, gi_count, files,
                   writes, processed, ret>>
    /\ UNCHANGED <<pureVars, toolVars>>

\* sol = path.solve()
PathSolve ==
    /\ pc = "for_path"
    /\ gi_idx < Len(gi_paths)
    /\ gi_sol' = solve(solver, gi_paths[gi_idx + 1])
    /\ pc' = "solved"
    /\ log' = Append(log, Event("solve", fi, gi_idx))
    /\ UNCHANGED last_hint
    /\ UNCHANGED <<firness_data, constraint_cache, solver, gi_max_paths, fi,
                   gi_constraints, gi_paths, gi_idx, gi_data, gi_count, files,
                   writes, processed, ret>>
    /\ UNCHANGED <<pureVars, toolVars>>

\* "if sol:" is false: the path is passed over
PathUnsat ==
    /\ pc = "solved"
    /\ ~Truthy(gi_sol)
    /\ gi_idx' = gi_idx + 1
    /\ pc' = "for_path"
    /\ UNCHANGED <<last_hint, log>>
    /\ UNCHANGED <<firness_data, constraint_cache, solver, gi_max_paths, fi,
                   gi_constraints, gi_paths, gi_sol, gi_data, gi_count, files, writes,
                   processed, ret>>
    /\ UNCHANGED <<pureVars, toolVars>>

\* data = self._sol_to_bytes(sol, func_data); struct.error of the encoder
\* leaves generate_inputs
PathEncode ==
    /\ pc = "solved"
    /\ Truthy(gi_sol)
    /\ LET enc == _sol_to_bytes(gi_sol[1], FuncDataOf(firness_data[fi]))
       IN  IF enc.raised
           THEN /\ pc' = "raised"
                /\ ret' = <<"struct.error">>
                /\ UNCHANGED gi_data
           ELSE /\ pc' = "encoded"
                /\ gi_data' = Some(enc.data)
                /\ UNCHANGED ret
    /\ UNCHANGED <<last_hint, log>>
    /\ UNCHANGED <<firness_data, constraint_cache, solver, gi_max_paths, fi,
                   gi_constraints, gi_paths, gi_idx, gi_sol, gi_count, files,
                   writes, processed>>
    /\ UNCHANGED <<pureVars, toolVars>>

\* with open(path_file, 'wb') as f: f.write(data); count += 1
PathWrite ==
    /\ pc = "encoded"
    /\ files' = Put(files, FileName(firness_data[fi].Function, gi_idx), gi_data[1])
    /\ writes' = Append(writes, FileName(firness_data[fi].Function, gi_idx))
    /\ gi_count' = gi_count + 1
    /\ gi_idx' = gi_idx + 1
    /\ pc' = "for_path"
    /\ log' = Append(log, Event("write", fi, gi_idx))
    /\ UNCHANGED last_hint
    /\ UNCHANGED <<firness_data, constraint_cache, solver, gi_max_paths, fi,
                   gi_constraints, gi_paths, gi_sol, gi_data, processed, ret>>
    /\ UNCHANGED <<pureVars, toolVars>>

\* open(path_file, 'wb') fails: OSError leaves generate_inputs
PathWriteFails ==
    /\ pc = "encoded"
    /\ pc' = "raised"
    /\ ret' = <<"OSError">>
    /\ UNCHANGED <<last_hint, log>>
    /\ UNCHANGED <<firness_data, constraint_cache, solver, gi_max_paths, fi,
                   gi_constraints, gi_paths, gi_idx, gi_sol, gi_data, gi_count,
                   files, writes, processed>>
    /\ UNCHANGED <<pureVars, toolVars>>

Next ==
    \/ AddHints
    \/ GenerateInputs
    \/ FuncSkip
    \/ FuncEnumerate
    \/ BatchReturn
    \/ PathsDone
    \/ PathSolve
    \/ PathUnsat
    \/ PathEncode
    \/ PathWrite
    \/ PathWriteFails

Spec == Init /\ [][Next]_vars

--------------------------------------------------------------------------
(* generate_inputs as a function of the manifest: the harness of the batch *)
(* order runs it over a manifest and over a permutation of that manifest.  *)

\* the inner loop from idx on; st is [files, count, raised], and an
\* exception of the encoder leaves the batch with the files written so far
RECURSIVE RunPaths(_, _, _, _, _)
RunPaths(order, entry, paths, idx, st) ==
    IF idx >= Len(paths) THEN st
    ELSE LET sol == solve(order, paths[idx + 1])
         IN  IF ~Truthy(sol) THEN RunPaths(order, entry, paths, idx + 1, st)
             ELSE LET enc == _sol_to_bytes(sol[1], FuncDataOf(entry))
                  IN  IF enc.raised THEN [st EXCEPT !.raised = TRUE]
                      ELSE RunPaths(order, entry, paths, idx + 1,
                               [st EXCEPT
                                  !.files = Put(@, FileName(entry.Function, idx),
                                                enc.data),
                                  !.count = @ + 1])

\* one iteration of the outer loop
RunEntry(order, cache, max_paths, entry, st) ==
    IF st.raised THEN st
    ELSE IF entry.Function = "" THEN st
    ELSE LET constraints == Get(cache, entry.Function, <<>>)
         IN  IF constraints = <<>> THEN st
             ELSE RunPaths(order, entry, _gen_paths(constraints, max_paths),
                           0, st)

\* the outer loop over the first n entries of the manifest
RECURSIVE RunBatch(_, _, _, _, _)
RunBatch(order, cache, max_paths, manifest, n) ==
    IF n = 0 THEN [files |-> EmptyDict, count |-> 0, raised |-> FALSE]
    ELSE RunEntry(order, cache, max_paths, manifest[n],
                  RunBatch(order, cache, max_paths, manifest, n - 1))

\* the orders of n entries
OrdersOf(n) ==
    { q \in [1..n -> 1..n] : \A i, j \in 1..n : q[i] = q[j] => i = j }

Permuted(manifest, q) == [i \in 1..Len(manifest) |-> manifest[q[i]]]

\* the registries of the harness: a hint list for F and one for G
OrdCaches ==
    { Put(Put(EmptyDict, "F", hf), "G", hg) : hf \in HintLists, hg \in HintLists }

OrdInputs ==
    { [manifest |-> mf, perm |-> q, cache |-> c, max_paths |-> mp, solver |-> o] :
        mf \in SeqsUpTo(ManifestEntries, MaxFuncs) \ {<<>>},
        q \in UNION { OrdersOf(n) : n \in 1..MaxFuncs },
        c \in OrdCaches, mp \in BatchBudgets, o \in SolverOrders }

InitOrd ==
    /\ IdleEngine
    /\ IdleNeg
    /\ IdleEnum
    /\ IdleSolve
    /\ IdleEnc
    /\ IdleExt
    /\ IdleWr
    /\ IdleHp
    /\ IdleCt
    /\ IdleMu
    /\ ord_in \in { i \in OrdInputs : DOMAIN i.perm = 1..Len(i.manifest) }
    /\ ord_out = <<>>

\* the batch over the manifest as given and over the manifest reordered
RunBoth ==
    /\ ord_out = <<>>
    /\ ord_out' =
         <<[first  |-> RunBatch(ord_in.solver, ord_in.cache, ord_in.max_paths,
                                ord_in.manifest, Len(ord_in.manifest)),
            second |-> RunBatch(ord_in.solver, ord_in.cache, ord_in.max_paths,
                                Permuted(ord_in.manifest, ord_in.perm),
                                Len(ord_in.manifest))]>>
    /\ UNCHANGED <<ord_in, pureVars, engineVars, wrVars, hpVars, ctVars, muVars>>

NextOrd == RunBoth

SpecOrd == InitOrd /\ [][NextOrd]_vars

--------------------------------------------------------------------------
(* The wrapper (src/firness_enhanced.py) running the engine as a child    *)
(* process, and the import of z3 at the head of src/concolic_engine.py.   *)

\* the child process "python3 /workspace/concolic_engine.py ...": without z3
\* the import prints the install advice and exits with status 1 before main
\* runs; with z3, main constructs the engine and runs generate_inputs, which
\* creates the output directory, and the process ends with 0, or with 1 when
\* an exception leaves main
ConcolicEngineProcess(z3, raises) ==
    IF ~z3 THEN [status |-> 1, started |-> FALSE, makedirs |-> FALSE]
    ELSE [status |-> IF raises THEN 1 ELSE 0, started |-> TRUE,
          makedirs |-> TRUE]

WrArgs ==
    [enable_concolic : BOOLEAN, enable_callbacks : BOOLEAN,
     enable_mutators : BOOLEAN, all_enhancements : BOOLEAN,
     protocol : BOOLEAN]

WrEnvs ==
    [z3 : BOOLEAN, firness_ok : BOOLEAN, firness_json : BOOLEAN,
     engine_raises : BOOLEAN, inputs_dir : BOOLEAN]

\* args after "if args.all_enhancements:" has set the three flags
EnableConcolic == wr_args.enable_concolic \/ wr_args.all_enhancements
EnableCallbacks == wr_args.enable_callbacks \/ wr_args.all_enhancements
EnableMutators == wr_args.enable_mutators \/ wr_args.all_enhancements

InitWr ==
    /\ IdleEngine
    /\ IdleNeg
    /\ IdleEnum
    /\ IdleSolve
    /\ IdleEnc
    /\ IdleExt
    /\ IdleOrd
    /\ IdleHp
    /\ IdleCt
    /\ IdleMu
    /\ wr_args \in WrArgs
    /\ wr_env \in WrEnvs
    /\ wr_pc = "main"
    /\ wr_success = FALSE
    /\ wr_out = <<>>
    /\ wr_status = <<>>
    /\ wr_engine = <<>>
    /\ wr_dir = wr_env.inputs_dir

WrFrame ==
    UNCHANGED <<pureVars, engineVars, ordVars, hpVars, ctVars, muVars, wr_args,
                wr_env>>

\* main: run_original_firness; its failure ends the run with status 1
WrRunFirness ==
    /\ wr_pc = "main"
    /\ IF ~wr_env.firness_ok
       THEN /\ wr_out' = Append(wr_out, "[!] FIRNESS failed")
            /\ wr_status' = <<1>>
            /\ wr_pc' = "exit"
       ELSE /\ wr_pc' = IF EnableConcolic \/ EnableCallbacks \/ EnableMutators
                        THEN "apply" ELSE "completed"
            /\ UNCHANGED <<wr_out, wr_status>>
    /\ UNCHANGED <<wr_success, wr_engine, wr_dir>>
    /\ WrFrame

\* apply_enhancements up to "success = True"
WrApply ==
    /\ wr_pc = "apply"
    /\ IF ~wr_env.firness_json
       THEN /\ wr_out' = wr_out \o
                  <<"[!] FIRNESS output not found. Run with -a -g first.",
                    "[!] Some enhancements failed, but continuing...">>
            /\ wr_pc' = "summary"
            /\ UNCHANGED wr_success
       ELSE /\ wr_success' = TRUE
            /\ wr_pc' = "concolic"
            /\ UNCHANGED wr_out
    /\ UNCHANGED <<wr_status, wr_engine, wr_dir>>
    /\ WrFrame

\* Enhancement 1: the engine runs as a child process; a status other than 0
\* is reported as non-critical and clears success
WrConcolic ==
    /\ wr_pc = "concolic"
    /\ IF EnableConcolic
       THEN LET result == ConcolicEngineProcess(wr_env.z3, wr_env.engine_raises)
            IN  /\ wr_engine' = <<result>>
                /\ wr_dir' = (wr_dir \/ result.makedirs)
                /\ IF result.status = 0
                   THEN /\ wr_out' = Append(wr_out,
                               "[+] Generated concolic inputs in /workspace/concolic_inputs")
                        /\ UNCHANGED wr_success
                   ELSE /\ wr_out' = Append(wr_out,
                               "[!] Concolic engine failed (non-critical)")
                        /\ wr_success' = FALSE
       ELSE UNCHANGED <<wr_engine, wr_dir, wr_out, wr_success>>
    /\ wr_pc' = "callbacks"
    /\ UNCHANGED wr_status
    /\ WrFrame

\* Enhancement 2: the callback handler; none of its outcomes changes success
WrCallbacks ==
    /\ wr_pc = "callbacks"
    /\ IF EnableCallbacks
       THEN \E msg \in {"[+] Enhanced harness with callbacks",
                        "[!] Callback handler failed (non-critical)",
                        "[!] Harness not found"} :
                wr_out' = Append(wr_out, msg)
       ELSE UNCHANGED wr_out
    /\ wr_pc' = "mutators"
    /\ UNCHANGED <<wr_success, wr_status, wr_engine, wr_dir>>
    /\ WrFrame

\* Enhancement 3: the protocol mutators, run when a protocol is given; then
\* apply_enhancements returns success and main prints its warning
WrMutators ==
    /\ wr_pc = "mutators"
    /\ LET warn == IF wr_success THEN <<>>
                   ELSE <<"[!] Some enhancements failed, but continuing...">>
       IN  IF EnableMutators /\ wr_args.protocol
           THEN \E msg \in {"[+] Generated protocol mutations in /workspace/protocol_mutations",
                            "[!] Protocol mutator failed (non-critical)"} :
                    wr_out' = Append(wr_out, msg) \o warn
           ELSE wr_out' = wr_out \o warn
    /\ wr_pc' = "summary"
    /\ UNCHANGED <<wr_success, wr_status, wr_engine, wr_dir>>
    /\ WrFrame

\* ENHANCEMENT SUMMARY: the line about the concolic inputs
WrSummary ==
    /\ wr_pc = "summary"
    /\ wr_out' = IF ~EnableConcolic THEN wr_out
                 ELSE IF wr_dir
                      THEN Append(wr_out, "Concolic inputs: files in /workspace/concolic_inputs")
                      ELSE Append(wr_out, "Concolic inputs: Failed to generate")
    /\ wr_pc' = "completed"
    /\ UNCHANGED <<wr_success, wr_status, wr_engine, wr_dir>>
    /\ WrFrame

\* main prints the completion line and returns 0
WrCompleted ==
    /\ wr_pc = "completed"
    /\ wr_out' = Append(wr_out, "[+] Enhanced FIRNESS completed successfully")
    /\ wr_status' = <<0>>
    /\ wr_pc' = "exit"
    /\ UNCHANGED <<wr_success, wr_engine, wr_dir>>
    /\ WrFrame

NextWr ==
    \/ WrRunFirness
    \/ WrApply
    \/ WrConcolic
    \/ WrCallbacks
    \/ WrMutators
    \/ WrSummary
    \/ WrCompleted

SpecWr == InitWr /\ [][NextWr]_vars

--------------------------------------------------------------------------
(* _gen_paths and _negate over objects.  A Python list and a dataclass    *)
(* instance are objects with an identity: two names may refer to the same  *)
(* object, and a change made through one is seen through the other.        *)

\* PathConstraint(...) constructs an object
NewPred(h, c) ==
    [heap |-> [h EXCEPT !.preds = Append(@, c)], id |-> Len(h.preds) + 1]

\* a list display, a slice or a concatenation constructs a list object
NewList(h, ids) ==
    [heap |-> [h EXCEPT !.lists = Append(@, ids)], id |-> Len(h.lists) + 1]

\* _negate(c): reads the fields of c and returns a new PathConstraint
NegateObject(h, c) == NewPred(h, _negate(h.preds[c]))

\* an ExecutionPath that keeps the list it is given
ListAlias(h, l) == [heap |-> h, id |-> l]

\* constraints[:] - a new list with the same elements
ListCopy(h, l) == NewList(h, h.lists[l])

\* constraints[:i] + [neg]
SlicePlus(h, l, i, neg) == NewList(h, Append(SubSeq(h.lists[l], 1, i), neg))

\* the for loop of _gen_paths, from 0-based index i on
RECURSIVE GenLoopObjects(_, _, _, _, _)
GenLoopObjects(h, l, max_paths, i, paths) ==
    IF i >= Len(h.lists[l]) \/ Len(paths) >= max_paths
    THEN [heap |-> h, paths |-> paths]
    ELSE LET neg == NegateObject(h, h.lists[l][i + 1])
             path == SlicePlus(neg.heap, l, i, neg.id)
         IN  GenLoopObjects(path.heap, l, max_paths, i + 1,
                            Append(paths, path.id))

GenPathsObjects(h, l, max_paths) ==
    LET first == ListCopy(h, l)
    IN  GenLoopObjects(first.heap, l, max_paths, 0, <<first.id>>)

\* the predicates a list object holds, by value
Content(h, l) == [k \in 1..Len(h.lists[l]) |-> h.preds[h.lists[l][k]]]

\* the heaps before the call: the registry's list with one object for each
\* predicate of a hint list, or with one object held twice
HpHeaps ==
    { [preds |-> cs, lists |-> <<[k \in 1..Len(cs) |-> k]>>] : cs \in HintLists }
    \cup { [preds |-> <<cs[1]>>, lists |-> <<<<1, 1>>>>] : cs \in HintLists \ {<<>>} }

\* the predicates a caller appends to a path
AppendedPreds ==
    { PathConstraint("X", "eq", Some(0), NoLocation),
      PathConstraint("Y", "null", None, NoLocation) }

InitHp ==
    /\ IdleEngine
    /\ IdleNeg
    /\ IdleEnum
    /\ IdleSolve
    /\ IdleEnc
    /\ IdleExt
    /\ IdleOrd
    /\ IdleWr
    /\ IdleCt
    /\ IdleMu
    /\ hp_heap \in HpHeaps
    /\ hp_call \in [constraints : {1}, max_paths : 0..MaxBudget]
    /\ hp_paths = <<>>
    /\ hp_snap = <<>>
    /\ hp_touched = {}
    /\ hp_changes = 0

HpFrame ==
    UNCHANGED <<pureVars, engineVars, ordVars, wrVars, ctVars, muVars, hp_call>>

\* paths = self._gen_paths(constraints, max_paths), with the list the
\* registry holds
HpGenPaths ==
    /\ hp_paths = <<>>
    /\ LET r == GenPathsObjects(hp_heap, hp_call.constraints, hp_call.max_paths)
       IN  /\ hp_heap' = r.heap
           /\ hp_paths' = <<r.paths>>
           /\ hp_snap' = <<[before |-> hp_heap,
                            paths |-> [i \in 1..Len(r.paths) |->
                                          Content(r.heap, r.paths[i])]]>>
    /\ UNCHANGED <<hp_touched, hp_changes>>
    /\ HpFrame

\* a caller changes the list of one returned path: append
HpAppend ==
    /\ hp_paths # <<>>
    /\ hp_changes < MaxChanges
    /\ \E i \in 1..Len(hp_paths[1]) : \E c \in AppendedPreds :
         LET new == NewPred(hp_heap, c)
         IN  /\ hp_heap' = [new.heap EXCEPT !.lists[hp_paths[1][i]] =
                                               Append(@, new.id)]
             /\ hp_touched' = hp_touched \cup {i}
    /\ hp_changes' = hp_changes + 1
    /\ UNCHANGED <<hp_paths, hp_snap>>
    /\ HpFrame

\* ... pop
HpPop ==
    /\ hp_paths # <<>>
    /\ hp_changes < MaxChanges
    /\ \E i \in 1..Len(hp_paths[1]) :
         /\ hp_heap.lists[hp_paths[1][i]] # <<>>
         /\ hp_heap' = [hp_heap EXCEPT !.lists[hp_paths[1][i]] =
                                          SubSeq(@, 1, Len(@) - 1)]
         /\ hp_touched' = hp_touched \cup {i}
    /\ hp_changes' = hp_changes + 1
    /\ UNCHANGED <<hp_paths, hp_snap>>
    /\ HpFrame

\* ... assignment to an element: the negation of the predicate it held
HpSetItem ==
    /\ hp_paths # <<>>
    /\ hp_changes < MaxChanges
    /\ \E i \in 1..Len(hp_paths[1]) :
         \E k \in 1..Len(hp_heap.lists[hp_paths[1][i]]) :
           LET new == NegateObject(hp_heap, hp_heap.lists[hp_paths[1][i]][k])
           IN  /\ hp_heap' = [new.heap EXCEPT !.lists[hp_paths[1][i]][k] = new.id]
               /\ hp_touched' = hp_touched \cup {i}
    /\ hp_changes' = hp_changes + 1
    /\ UNCHANGED <<hp_paths, hp_snap>>
    /\ HpFrame

NextHp ==
    \/ HpGenPaths
    \/ HpAppend
    \/ HpPop
    \/ HpSetItem

SpecHp == InitHp /\ [][NextHp]_vars

--------------------------------------------------------------------------
(* Crash triage (src/crash_triage.py): analyze_directory, the grouping of *)
(* crashes by hash, and the reports of main.                               *)

\* CrashInfo.generate_hash: the first 16 hex digits of the md5 of
\* f"{crash_type.value}:{function_name}" and the first three frames of the
\* stack; the digest is given by the text it is taken of
generate_hash(crash_type, function_name, stack_trace) ==
    <<crash_type, function_name,
      SubSeq(stack_trace, 1, Min(3, Len(stack_trace)))>>

\* what analyze_crash finds in a log
CrashLogs ==
    [crash_type : {"buffer_overflow", "unknown"},
     function_name : {"Foo"},
     stack_trace : {<<>>, <<"a", "b", "c", "d">>, <<"a", "b", "c", "e">>}]

\* analyze_crash(crash_log, crash_file): the CrashInfo with its hash
analyze_crash(crash_log, crash_file) ==
    [crash_file |-> crash_file,
     crash_type |-> crash_log.crash_type,
     function_name |-> crash_log.function_name,
     stack_trace |-> crash_log.stack_trace,
     crash_hash |-> generate_hash(crash_log.crash_type, crash_log.function_name,
                                  crash_log.stack_trace)]

\* deduplicate_crashes over the first n crashes: each is appended to the
\* bucket of its hash in self.crash_buckets (a defaultdict(list))
RECURSIVE deduplicate_crashes(_, _, _)
deduplicate_crashes(crashes, buckets, n) ==
    IF n = 0 THEN buckets
    ELSE LET b == deduplicate_crashes(crashes, buckets, n - 1)
             h == crashes[n].crash_hash
         IN  Put(b, h, Append(Get(b, h, <<>>), crashes[n]))

\* 'occurrences': len(crash_list) for each bucket
Occurrences(buckets) == [h \in DOMAIN buckets |-> Len(buckets[h])]

InitCt ==
    /\ IdleEngine
    /\ IdleNeg
    /\ IdleEnum
    /\ IdleSolve
    /\ IdleEnc
    /\ IdleExt
    /\ IdleOrd
    /\ IdleWr
    /\ IdleHp
    /\ IdleMu
    /\ ct_args \in [deduplicate : BOOLEAN, json : BOOLEAN]
    /\ ct_logs \in SeqsUpTo(CrashLogs, MaxCrashes)
    /\ ct_crashes = <<>>
    /\ ct_buckets = EmptyDict
    /\ ct_pc = "analyze"
    /\ ct_reports = <<>>

CtFrame ==
    UNCHANGED <<pureVars, engineVars, ordVars, wrVars, hpVars, muVars, ct_args,
                ct_logs>>

\* analyze_directory: the next log is analyzed and its crash appended
CtAnalyze ==
    /\ ct_pc = "analyze"
    /\ Len(ct_crashes) < Len(ct_logs)
    /\ ct_crashes' = Append(ct_crashes,
                            analyze_crash(ct_logs[Len(ct_crashes) + 1],
                                          Len(ct_crashes) + 1))
    /\ UNCHANGED <<ct_buckets, ct_pc, ct_reports>>
    /\ CtFrame

\* analyze_directory returns; "if args.deduplicate:" groups the crashes
CtDeduplicate ==
    /\ ct_pc = "analyze"
    /\ Len(ct_crashes) = Len(ct_logs)
    /\ ct_buckets' = IF ct_args.deduplicate
                     THEN deduplicate_crashes(ct_crashes, ct_buckets,
                                              Len(ct_crashes))
                     ELSE ct_buckets
    /\ ct_pc' = "html"
    /\ UNCHANGED <<ct_crashes, ct_reports>>
    /\ CtFrame

\* generate_html_report: groups the crashes, then writes the report
CtHtmlReport ==
    /\ ct_pc = "html"
    /\ LET buckets == deduplicate_crashes(ct_crashes, ct_buckets, Len(ct_crashes))
       IN  /\ ct_buckets' = buckets
           /\ ct_reports' = Append(ct_reports,
                                   [report |-> "html",
                                    total_crashes |-> Len(ct_crashes),
                                    occurrences |-> Occurrences(buckets)])
    /\ ct_pc' = IF ct_args.json THEN "json" ELSE "done"
    /\ UNCHANGED ct_crashes
    /\ CtFrame

\* generate_json_report: groups the crashes, then writes the report
CtJsonReport ==
    /\ ct_pc = "json"
    /\ LET buckets == deduplicate_crashes(ct_crashes, ct_buckets, Len(ct_crashes))
       IN  /\ ct_buckets' = buckets
           /\ ct_reports' = Append(ct_reports,
                                   [report |-> "json",
                                    total_crashes |-> Len(ct_crashes),
                                    occurrences |-> Occurrences(buckets)])
    /\ ct_pc' = "done"
    /\ UNCHANGED ct_crashes
    /\ CtFrame

NextCt ==
    \/ CtAnalyze
    \/ CtDeduplicate
    \/ CtHtmlReport
    \/ CtJsonReport

SpecCt == InitCt /\ [][NextCt]_vars

--------------------------------------------------------------------------
(* Protocol mutators (src/protocol_mutators.py).  A buffer is a sequence   *)
(* of bytes; a number a mutation writes is given by its four bytes, most   *)
(* significant first.  A draw is what self.random gives in one call of     *)
(* mutate: the mutation chosen and, in order, the values chosen inside it  *)
(* (each a sequence of bytes; <<>> where random() >= 0.3).                 *)

\* the four bytes of a number below 2^31
W4(n) == <<(n \div 16777216) % 256, (n \div 65536) % 256, (n \div 256) % 256,
           n % 256>>

\* value & 0xFFFF packed '>H'; a port or checksum packed '>H'
Low2(w) == <<w[3], w[4]>>
\* packed '<I' and '<Q' ('>I' stores the four bytes as they are)
LittleI(w) == <<w[4], w[3], w[2], w[1]>>
LittleQ(w) == <<w[4], w[3], w[2], w[1], 0, 0, 0, 0>>

Bytes1(S) == { <<v>> : v \in S }
Words(S) == { W4(n) : n \in S }

INTERESTING_PORTS == Words({0, 21, 22, 23, 25, 53, 80, 443, 8080, 65535})
INTERESTING_IPS ==
    {W4(0), <<127, 0, 0, 1>>, <<255, 255, 255, 255>>, <<192, 168, 0, 1>>, <<8, 8, 8, 8>>}
INTERESTING_SIZES == Words({0, 1, 64, 512, 1024, 1500, 8192, 65535}) \cup {<<255, 255, 255, 255>>}
INVALID_CHECKSUMS == {<<0, 0, 0, 0>>, <<0, 0, 255, 255>>, <<0, 0, 18, 52>>}
INTERESTING_ENDPOINTS == Bytes1({0, 1, 15, 16, 255})
INTERESTING_LENGTHS == Words({0, 1, 8, 64, 512, 1024, 65535})
USB_REQUESTS == Bytes1({0, 5, 6, 9, 255})
INTERESTING_LBAS == {W4(0), W4(1), <<127, 255, 255, 255>>, <<128, 0, 0, 0>>, <<255, 255, 255, 255>>}
INTERESTING_BLOCK_SIZES == Words({0, 1, 512, 1024, 2048, 4096, 8192}) \cup {<<255, 255, 255, 255>>}
INTERESTING_COORDS == Words({0, 1, 640, 1024, 1920, 32767, 65535}) \cup {<<255, 255, 255, 255>>}
INTERESTING_COLORS ==
    {W4(0), <<255, 255, 255, 255>>, <<0, 255, 0, 0>>, <<0, 0, 255, 0>>, <<0, 0, 0, 255>>}

\* the outcome of a mutation: the bytearray, or an exception
Ok(data) == [data |-> data, raised |-> FALSE]

\* data[pos] = v and struct.pack_into(fmt, data, pos, v): the bytes bs are
\* stored from 0-based position pos on; IndexError or struct.error when they
\* do not fit
Store(res, pos, bs) ==
    IF res.raised THEN res
    ELSE IF pos + Len(bs) > Len(res.data)
         THEN [data |-> res.data, raised |-> TRUE]
         ELSE Ok([k \in 1..Len(res.data) |->
                     IF k > pos /\ k <= pos + Len(bs) THEN bs[k - pos]
                     ELSE res.data[k]])

\* a store that is made only when a value was drawn
StoreIf(res, pos, bs) == IF bs = <<>> THEN res ELSE Store(res, pos, bs)

\* a draw, and the draws of a mutation
Draw(mutation, picks) == [mutation |-> mutation, picks |-> picks]

DrawsOf(mutation, picks) == { Draw(mutation, p) : p \in picks }

\* the offsets among 10, 16, 24 a checksum fits at, in order
ChecksumOffsets(data) ==
    LET Fits(offset) == offset + 2 <= Len(data)
    IN  SelectSeq(<<10, 16, 24>>, Fits)

(* NetworkMutator *)

\* what self.random gives inside the mutation chosen; a mutation that
\* returns at its length test draws nothing
NetworkDraws(data) ==
    LET ip_header ==
            IF Len(data) < 20 THEN {<<>>}
            ELSE Bytes1({69, 70, 79, 0, 255}) \X INTERESTING_SIZES
                 \X Bytes1({0, 1, 64, 128, 255}) \X Bytes1({1, 6, 17, 255})
                 \X ({<<>>} \cup INTERESTING_IPS) \X ({<<>>} \cup INTERESTING_IPS)
        port ==
            IF Len(data) < 24 THEN {<<>>}
            ELSE { <<p>> : p \in INTERESTING_PORTS }
        packet_size == { <<size>> : size \in INTERESTING_SIZES }
        checksum == [1..Len(ChecksumOffsets(data)) -> INVALID_CHECKSUMS]
        flags ==
            IF Len(data) < 14 THEN {<<>>}
            ELSE IF Len(data) >= 34
                 THEN Bytes1({0, 32, 64, 96, 255}) \X Bytes1({0, 2, 16, 24, 255})
                 ELSE { <<f>> : f \in Bytes1({0, 32, 64, 96, 255}) }
        \* frag_offset = randint(0, 8191), as
        \* <<frag_offset >> 8, frag_offset & 0xFF>>
        fragment ==
            IF Len(data) < 20 THEN {<<>>}
            ELSE { <<<<hi, lo>>>> : <<hi, lo>> \in (0..31) \X (0..255) }
    IN  DrawsOf("_mutate_ip_header", ip_header)
        \cup DrawsOf("_mutate_port", port)
        \cup DrawsOf("_mutate_packet_size", packet_size)
        \cup DrawsOf("_mutate_checksum", checksum)
        \cup DrawsOf("_mutate_flags", flags)
        \cup DrawsOf("_fragment_packet", fragment)

\* NetworkMutator.mutate under a draw
NetworkMutator(draw, data) ==
    LET picks == draw.picks
        _mutate_ip_header ==
            IF Len(data) < 20 THEN Ok(data)
            ELSE LET version == Store(Ok(data), 0, picks[1])
                     length == Store(version, 2, Low2(picks[2]))
                     ttl == Store(length, 8, picks[3])
                     protocol == Store(ttl, 9, picks[4])
                     source == StoreIf(protocol, 12, picks[5])
                 IN  StoreIf(source, 16, picks[6])
        _mutate_port ==
            IF Len(data) < 24 THEN Ok(data)
            ELSE Store(Store(Ok(data), 20, Low2(picks[1])), 22, Low2(picks[1]))
        \* the first of the offsets 2, 4, 6, 8 the two bytes fit at, then break
        _mutate_packet_size ==
            LET fit == { offset \in {2, 4, 6, 8} : offset + 2 <= Len(data) }
            IN  IF fit = {} THEN Ok(data)
                ELSE Store(Ok(data), SetMin(fit), Low2(picks[1]))
        RECURSIVE StoreChecksums(_, _)
        StoreChecksums(offsets, n) ==
            IF n = 0 THEN Ok(data)
            ELSE Store(StoreChecksums(offsets, n - 1), offsets[n], Low2(picks[n]))
        _mutate_checksum ==
            StoreChecksums(ChecksumOffsets(data), Len(ChecksumOffsets(data)))
        _mutate_flags ==
            IF Len(data) < 14 THEN Ok(data)
            ELSE LET ip == Store(Ok(data), 6, picks[1])
                 IN  IF Len(data) >= 34 THEN Store(ip, 33, picks[2]) ELSE ip
        \* data[6] = (data[6] & 0xE0) | ((frag_offset >> 8) & 0x1F);
        \* data[7] = frag_offset & 0xFF
        _fragment_packet ==
            IF Len(data) < 20 THEN Ok(data)
            ELSE Store(Store(Ok(data), 6,
                             <<((data[6 + 1] \div 32) * 32) + (picks[1][1] % 32)>>),
                       7, <<picks[1][2]>>)
    IN  CASE draw.mutation = "_mutate_ip_header" -> _mutate_ip_header
          [] draw.mutation = "_mutate_port" -> _mutate_port
          [] draw.mutation = "_mutate_packet_size" -> _mutate_packet_size
          [] draw.mutation = "_mutate_checksum" -> _mutate_checksum
          [] draw.mutation = "_mutate_flags" -> _mutate_flags
          [] draw.mutation = "_fragment_packet" -> _fragment_packet

(* USBMutator *)

USBDraws(data) ==
    LET endpoint ==
            IF Len(data) < 4 THEN {<<>>}
            ELSE { <<e>> : e \in INTERESTING_ENDPOINTS }
        transfer_length ==
            IF Len(data) < 8 THEN {<<>>}
            ELSE { <<l>> : l \in INTERESTING_LENGTHS }
        request_type ==
            IF Len(data) < 2 THEN {<<>>} ELSE { <<q>> : q \in USB_REQUESTS }
        device_address ==
            IF Len(data) < 3 THEN {<<>>}
            ELSE { <<a>> : a \in Bytes1({0, 1, 127, 128, 255}) }
    IN  DrawsOf("_mutate_endpoint", endpoint)
        \cup DrawsOf("_mutate_transfer_length", transfer_length)
        \cup DrawsOf("_mutate_request_type", request_type)
        \cup DrawsOf("_mutate_device_address", device_address)

USBMutator(draw, data) ==
    LET picks == draw.picks
    IN  CASE draw.mutation = "_mutate_endpoint" ->
               IF Len(data) < 4 THEN Ok(data) ELSE Store(Ok(data), 0, picks[1])
          [] draw.mutation = "_mutate_transfer_length" ->
               IF Len(data) < 8 THEN Ok(data)
               ELSE Store(Ok(data), 4, LittleI(picks[1]))
          [] draw.mutation = "_mutate_request_type" ->
               IF Len(data) < 2 THEN Ok(data) ELSE Store(Ok(data), 1, picks[1])
          [] draw.mutation = "_mutate_device_address" ->
               IF Len(data) < 3 THEN Ok(data) ELSE Store(Ok(data), 2, picks[1])

(* StorageMutator *)

StorageDraws(data) ==
    LET lba ==
            IF Len(data) < 8 THEN {<<>>} ELSE { <<l>> : l \in INTERESTING_LBAS }
        block_size ==
            IF Len(data) < 12 THEN {<<>>}
            ELSE { <<size>> : size \in INTERESTING_BLOCK_SIZES }
        block_count ==
            IF Len(data) < 16 THEN {<<>>}
            ELSE { <<count>> :
                     count \in Words({0, 1, 256, 1024}) \cup {<<255, 255, 255, 255>>} }
        \* 0, 1, 0xDEADBEEF, 0xFFFFFFFF
        media_id ==
            IF Len(data) < 20 THEN {<<>>}
            ELSE { <<id>> : id \in {W4(0), W4(1), <<222, 173, 190, 239>>,
                                    <<255, 255, 255, 255>>} }
    IN  DrawsOf("_mutate_lba", lba)
        \cup DrawsOf("_mutate_block_size", block_size)
        \cup DrawsOf("_mutate_block_count", block_count)
        \cup DrawsOf("_mutate_media_id", media_id)

StorageMutator(draw, data) ==
    LET picks == draw.picks
    IN  CASE draw.mutation = "_mutate_lba" ->
               IF Len(data) < 8 THEN Ok(data)
               ELSE Store(Ok(data), 0, LittleQ(picks[1]))
          [] draw.mutation = "_mutate_block_size" ->
               IF Len(data) < 12 THEN Ok(data)
               ELSE Store(Ok(data), 8, LittleI(picks[1]))
          [] draw.mutation = "_mutate_block_count" ->
               IF Len(data) < 16 THEN Ok(data)
               ELSE Store(Ok(data), 12, LittleI(picks[1]))
          [] draw.mutation = "_mutate_media_id" ->
               IF Len(data) < 20 THEN Ok(data)
               ELSE Store(Ok(data), 16, LittleI(picks[1]))

(* DisplayMutator *)

DisplayDraws(data) ==
    LET coordinates ==
            IF Len(data) < 8 THEN {<<>>}
            ELSE INTERESTING_COORDS \X INTERESTING_COORDS
        dimensions ==
            IF Len(data) < 16 THEN {<<>>}
            ELSE INTERESTING_COORDS \X INTERESTING_COORDS
        color ==
            IF Len(data) < 20 THEN {<<>>}
            ELSE { <<c>> : c \in INTERESTING_COLORS }
        pixel_format ==
            IF Len(data) < 24 THEN {<<>>}
            ELSE { <<f>> : f \in Words({0, 1, 2, 3, 255}) }
    IN  DrawsOf("_mutate_coordinates", coordinates)
        \cup DrawsOf("_mutate_dimensions", dimensions)
        \cup DrawsOf("_mutate_color", color)
        \cup DrawsOf("_mutate_pixel_format", pixel_format)

DisplayMutator(draw, data) ==
    LET picks == draw.picks
    IN  CASE draw.mutation = "_mutate_coordinates" ->
               IF Len(data) < 8 THEN Ok(data)
               ELSE Store(Store(Ok(data), 0, LittleI(picks[1])), 4,
                          LittleI(picks[2]))
          [] draw.mutation = "_mutate_dimensions" ->
               IF Len(data) < 16 THEN Ok(data)
               ELSE Store(Store(Ok(data), 8, LittleI(picks[1])), 12,
                          LittleI(picks[2]))
          [] draw.mutation = "_mutate_color" ->
               IF Len(data) < 20 THEN Ok(data)
               ELSE Store(Ok(data), 16, LittleI(picks[1]))
          [] draw.mutation = "_mutate_pixel_format" ->
               IF Len(data) < 24 THEN Ok(data)
               ELSE Store(Ok(data), 20, LittleI(picks[1]))

(* mutate and MutatorFactory *)

\* what self.random can give in one call of mutate on data
Draws(class, data) ==
    CASE class = "NetworkMutator" -> NetworkDraws(data)
      [] class = "USBMutator" -> USBDraws(data)
      [] class = "StorageMutator" -> StorageDraws(data)
      [] class = "DisplayMutator" -> DisplayDraws(data)
      [] class = "ProtocolMutator" -> {Draw("", <<>>)}

\* mutator.mutate(data) under a draw; the base class returns data
mutate(class, draw, data) ==
    CASE class = "NetworkMutator" -> NetworkMutator(draw, data)
      [] class = "USBMutator" -> USBMutator(draw, data)
      [] class = "StorageMutator" -> StorageMutator(draw, data)
      [] class = "DisplayMutator" -> DisplayMutator(draw, data)
      [] class = "ProtocolMutator" -> Ok(data)

PROTOCOL_MAP ==
    [g \in {"gEfiIp4ProtocolGuid", "gEfiIp6ProtocolGuid", "gEfiTcp4ProtocolGuid",
            "gEfiUdp4ProtocolGuid", "gEfiSimpleNetworkProtocolGuid",
            "gEfiManagedNetworkProtocolGuid"} |-> "NetworkMutator"]
    @@ [g \in {"gEfiUsbIoProtocolGuid", "gEfiUsb2HcProtocolGuid"} |-> "USBMutator"]
    @@ [g \in {"gEfiDiskIoProtocolGuid", "gEfiBlockIoProtocolGuid",
               "gEfiIdeControllerInitProtocolGuid",
               "gEfiSdMmcPassThruProtocolGuid"} |-> "StorageMutator"]
    @@ [g \in {"gEfiGraphicsOutputProtocolGuid", "gEfiHiiFontProtocolGuid"} |->
          "DisplayMutator"]

\* PROTOCOL_MAP.get(protocol_guid, ProtocolMutator)
create_mutator(protocol_guid) ==
    IF protocol_guid \in DOMAIN PROTOCOL_MAP THEN PROTOCOL_MAP[protocol_guid]
    ELSE "ProtocolMutator"

\* a loop that mutates the seed in every iteration
KeepData(data, mutated) == data

\* data = mutated  # Chain mutations
ChainData(data, mutated) == mutated

\* the protocol identifiers of the harness: one of each class, and two the
\* map does not hold
ProtocolGuids ==
    {"gEfiIp4ProtocolGuid", "gEfiUsbIoProtocolGuid", "gEfiDiskIoProtocolGuid",
     "gEfiGraphicsOutputProtocolGuid", "gEfiSecurityProtocolGuid", ""}

\* a seed: n bytes of one value
Seed(n, fill) == [k \in 1..n |-> fill]

\* the lengths the mutations of a class test for, and the length before each
TestedLengths(class) ==
    CASE class = "NetworkMutator" -> {13, 14, 19, 20, 34}
      [] class = "USBMutator" -> {7, 8}
      [] class = "StorageMutator" -> {7, 8, 11, 12, 15, 16, 19, 20}
      [] class = "DisplayMutator" -> {7, 8, 15, 16, 19, 20, 23, 24}
      [] class = "ProtocolMutator" -> {20}

\* seeds one mutation leaves few outcomes of, mutated up to MaxIterations
\* times, and seeds at the lengths the class tests for, mutated once
MuInputs ==
    [protocol_guid : ProtocolGuids,
     data : { Seed(n, 255) : n \in 0..4 },
     iterations : 0..MaxIterations]
    \cup { [protocol_guid |-> g, data |-> Seed(n, 255), iterations |-> 1] :
             <<g, n>> \in { <<h, k>> \in ProtocolGuids \X (5..34) :
                              k \in TestedLengths(create_mutator(h)) } }

InitMu ==
    /\ IdleEngine
    /\ IdleNeg
    /\ IdleEnum
    /\ IdleSolve
    /\ IdleEnc
    /\ IdleExt
    /\ IdleOrd
    /\ IdleWr
    /\ IdleHp
    /\ IdleCt
    /\ mu_in \in MuInputs
    /\ mu_data = mu_in.data
    /\ mu_mutations = <<>>
    /\ mu_i = 0
    /\ mu_pc = "loop"
    /\ mu_draws = <<>>

MuFrame ==
    UNCHANGED <<pureVars, engineVars, ordVars, wrVars, hpVars, ctVars, mu_in>>

\* one iteration of "for i in range(iterations)"
MuIterate ==
    /\ mu_pc = "loop"
    /\ mu_i < mu_in.iterations
    /\ \E draw \in Draws(create_mutator(mu_in.protocol_guid), mu_data) :
         LET mutated == mutate(create_mutator(mu_in.protocol_guid), draw, mu_data)
         IN  /\ mu_draws' = Append(mu_draws, draw)
             /\ IF mutated.raised
                THEN /\ mu_pc' = "raised"
                     /\ UNCHANGED <<mu_mutations, mu_data, mu_i>>
                ELSE /\ mu_mutations' = Append(mu_mutations, mutated.data)
                     /\ mu_data' = ChainData(mu_data, mutated.data)
                     /\ mu_i' = mu_i + 1
                     /\ UNCHANGED mu_pc
    /\ MuFrame

\* return mutations
MuReturn ==
    /\ mu_pc = "loop"
    /\ mu_i >= mu_in.iterations
    /\ mu_pc' = "returned"
    /\ UNCHANGED <<mu_data, mu_mutations, mu_i, mu_draws>>
    /\ MuFrame

NextMu ==
    \/ MuIterate
    \/ MuReturn

SpecMu == InitMu /\ [][NextMu]_vars

--------------------------------------------------------------------------
(* Claims about _gen_paths and _negate *)

\* C7: for a predicate list of length n and a path budget N >= 1,
\* _gen_paths returns exactly min(n+1, N) paths.
C7_EnumeratorBound ==
    (gp_out # <<>> /\ gp_in.max_paths >= 1) =>
        Len(gp_out[1]) = Min(Len(gp_in.constraints) + 1, gp_in.max_paths)

\* the budget cuts the enumeration short: 3 predicates, budget 2, 2 paths
C7_Witness ==
    /\ gp_out # <<>>
    /\ Len(gp_in.constraints) = 3
    /\ gp_in.max_paths = 2
    /\ Len(gp_out[1]) = 2

\* C8: path 0 is the input list unchanged, and every path with index i+1
\* is c0..c(i-1) followed by negate(ci) and nothing else (i+1 predicates).
C8_PathShape ==
    gp_out # <<>> =>
        LET cs == gp_in.constraints
            paths == gp_out[1]
        IN  /\ Len(paths) >= 1
            /\ paths[1].constraints = cs
            /\ \A i \in 0..(Len(cs) - 1) :
                 (i + 2 <= Len(paths)) =>
                    /\ Len(paths[i + 2].constraints) = i + 1
                    /\ \A j \in 1..i : paths[i + 2].constraints[j] = cs[j]
                    /\ paths[i + 2].constraints[i + 1] = _negate(cs[i + 1])

\* all flips of a 3-predicate list were produced, the last one really flipped
C8_Witness ==
    /\ gp_out # <<>>
    /\ Len(gp_in.constraints) = 3
    /\ Len(gp_out[1]) = 4
    /\ gp_in.constraints[3].constraint_type = "lt"
    /\ gp_out[1][4].constraints[3].constraint_type = "ge"
    /\ gp_out[1][4].constraints[1] = gp_in.constraints[1]

\* the partner of each ordering/equality kind under negation
NegationPartner ==
    [k \in OrderingKinds |->
        CASE k = "eq"  -> "neq" [] k = "neq" -> "eq"
          [] k = "lt"  -> "ge"  [] k = "ge"  -> "lt"
          [] k = "gt"  -> "le"  [] k = "le"  -> "gt"]

\* C9: on the six ordering/equality kinds _negate(_negate(p)) = p (same
\* variable, kind, operand and origin), with Equal<->NotEqual,
\* Less<->GreaterOrEqual and Greater<->LessOrEqual.
C9_NegateInvolution ==
    (neg_hist # <<>> /\ neg_hist[1].constraint_type \in OrderingKinds) =>
        /\ Len(neg_hist) >= 2 =>
             /\ neg_hist[2].constraint_type =
                    NegationPartner[neg_hist[1].constraint_type]
             /\ neg_hist[2].var_name = neg_hist[1].var_name
             /\ neg_hist[2].value = neg_hist[1].value
             /\ neg_hist[2].location = neg_hist[1].location
        /\ Len(neg_hist) = 3 => neg_hist[3] = neg_hist[1]

\* a located GreaterOrEqual predicate was negated twice
C9_Witness ==
    /\ Len(neg_hist) = 3
    /\ neg_hist[1].constraint_type = "ge"
    /\ neg_hist[2].constraint_type = "lt"
    /\ neg_hist[1].location # NoLocation

\* C10: NonNull and BitmaskSet predicates negate to themselves, so the flip
\* path of such a predicate at index i is the first i+1 predicates of the
\* straight-line path.
C10_SelfNegation ==
    gp_out # <<>> =>
        LET cs == gp_in.constraints
            paths == gp_out[1]
        IN  \A i \in 0..(Len(cs) - 1) :
              (cs[i + 1].constraint_type \in {"null", "flags"}) =>
                 /\ _negate(cs[i + 1]) = cs[i + 1]
                 /\ (i + 2 <= Len(paths)) =>
                       paths[i + 2].constraints =
                           SubSeq(paths[1].constraints, 1, i + 1)

\* the flip path of a BitmaskSet predicate at index 1 was produced
C10_Witness ==
    /\ gp_out # <<>>
    /\ Len(gp_in.constraints) = 3
    /\ gp_in.constraints[1].constraint_type = "gt"
    /\ gp_in.constraints[2].constraint_type = "flags"
    /\ Len(gp_out[1]) >= 3
    /\ gp_out[1][3].constraints = SubSeq(gp_in.constraints, 1, 2)

--------------------------------------------------------------------------
(* Claims about ExecutionPath.solve *)

\* predicate c with the returned Python int u (an unsigned 64-bit number,
\* given as its word) substituted for the variable, read over the integers
SubstituteHolds(c, u) ==
    LET t == c.constraint_type
        less(n) == n > 0 /\ ULess(u, Word64(n))        \* u < n
        greater(n) == n < 0 \/ ULess(Word64(n), u)     \* u > n
    IN  CASE t = "eq"    -> c.value[1] >= 0 /\ u = Word64(c.value[1])
          [] t = "neq"   -> ~(c.value[1] >= 0 /\ u = Word64(c.value[1]))
          [] t = "lt"    -> less(c.value[1])
          [] t = "gt"    -> greater(c.value[1])
          [] t = "le"    -> ~greater(c.value[1])
          [] t = "ge"    -> ~less(c.value[1])
          [] t = "null"  -> u # Word64(0)
          [] t = "flags" -> AndNonZero(u, Word64(c.value[1]))
          [] OTHER       -> TRUE

\* C1: whenever solve returns an assignment, substituting the returned
\* integer of each variable into every predicate of the path makes every
\* predicate true.
C1_SolverRoundTrip ==
    (sv_out # <<>> /\ sv_out[1] # None) =>
        \A i \in 1..Len(sv_in.constraints) :
            SubstituteHolds(sv_in.constraints[i],
                            sv_out[1][1][sv_in.constraints[i].var_name])

--------------------------------------------------------------------------
(* Claims about _sol_to_bytes *)

\* the IN arguments of the manifest that variable v backs
BackedBy(arguments, v) ==
    { k \in 1..Len(arguments) :
        arguments[k].arg_dir = "IN" /\ arguments[k].variable = v }

InArgs(arguments) == { k \in 1..Len(arguments) : arguments[k].arg_dir = "IN" }

\* the slot record of argument k in a result
SlotOf(result, k) ==
    CHOOSE sl \in { result.slots[i] : i \in 1..Len(result.slots) } : sl.arg = k

HasSlot(result, k) == \E i \in 1..Len(result.slots) : result.slots[i].arg = k

\* byte p of a returned buffer
ByteAt(data, p) ==
    IF \E b \in data.nz : b[1] = p THEN (CHOOSE b \in data.nz : b[1] = p)[2] ELSE 0

\* the positions where two buffers differ
Differences(d1, d2) ==
    { p \in { b[1] : b \in d1.nz \cup d2.nz } : ByteAt(d1, p) # ByteAt(d2, p) }

\* the two calls differ in the presence of the variable that backs the one
\* mid-manifest IN argument k
DiffersInArg(k) ==
    /\ Len(enc_calls) = 2
    /\ k \in InArgs(enc_in.func_data.Arguments)
    /\ \E j \in InArgs(enc_in.func_data.Arguments) : j > k
    /\ LET v == enc_in.func_data.Arguments[k].variable
       IN  /\ v \in DOMAIN enc_calls[1].solution
           /\ v \notin DOMAIN enc_calls[2].solution
           /\ BackedBy(enc_in.func_data.Arguments, v) = {k}

\* C2: two assignments that differ only in whether one mid-manifest IN
\* argument's variable is present put every subsequent IN argument at the
\* same offset, and the two buffers differ only inside that argument's slot.
C2_OffsetStability ==
    \A k \in 1..Len(enc_in.func_data.Arguments) :
        (DiffersInArg(k) /\ ~enc_calls[1].result.raised /\ ~enc_calls[2].result.raised) =>
            LET r1 == enc_calls[1].result
                r2 == enc_calls[2].result
                lo == SlotOf(r1, k).offset
                hi == lo + Max(SlotOf(r1, k).width, SlotOf(r2, k).width)
            IN  /\ \A j \in InArgs(enc_in.func_data.Arguments) :
                     j > k => SlotOf(r1, j).offset = SlotOf(r2, j).offset
                /\ r1.data.len = r2.data.len
                /\ \A p \in Differences(r1.data, r2.data) : lo <= p /\ p < hi

\* C3: _sol_to_bytes never fails: once the offset would exceed the 4096-byte
\* capacity the remaining arguments are skipped without a write or an
\* error, and no write lands outside the buffer or overlaps another slot.
C3_EncoderCapacity ==
    \A c \in 1..Len(enc_calls) :
        LET r == enc_calls[c].result
            written == { i \in 1..Len(r.slots) : r.slots[i].written }
        IN  /\ ~r.raised
            /\ \A i \in written :
                 /\ r.slots[i].offset >= 0
                 /\ r.slots[i].offset + r.slots[i].width <= BufferCapacity
            /\ \A i, j \in 1..Len(r.slots) :
                 i < j => r.slots[i].offset + r.slots[i].width <= r.slots[j].offset

--------------------------------------------------------------------------
(* The batch *)

BatchEnded == pc \in {"done", "raised"}

\* the file names of the artifacts an entry's satisfiable paths call for
ArtifactsDue(func_data) ==
    LET paths == _gen_paths(ConstraintsFor(func_data), gi_max_paths)
    IN  { FileName(func_data.Function, i - 1) : i \in
            { j \in 1..Len(paths) : Truthy(solve(solver, paths[j])) } }

\* C4: a failure while processing one manifest entry never prevents the
\* processing of the entries after it: when generate_inputs has ended it
\* has returned a count, every entry of the manifest was visited and every
\* function with satisfiable paths has its artifacts.
C4_FailureIsolation ==
    BatchEnded =>
        /\ pc = "done"
        /\ Len(processed) = Len(firness_data)
        /\ \A k \in 1..Len(firness_data) :
             ArtifactsDue(firness_data[k]) \subseteq DOMAIN files

\* the predicate list the design gives a function: the registered hint if
\* there is one, otherwise what the extractor finds in the source corpus
PredicatesOf(func) ==
    IF func \in DOMAIN constraint_cache THEN constraint_cache[func]
    ELSE extract_constraints(SourceFile, func)

\* C5: for every manifest entry generate_inputs uses the hint registered
\* for the function name if one exists and otherwise the list the
\* extractor returns for the function, so a function with no hint but with
\* guards in the source corpus has its paths enumerated.
C5_PredicateSource ==
    \A k \in 1..Len(processed) :
        processed[k].func # "" =>
            /\ processed[k].constraints = PredicatesOf(processed[k].func)
            /\ processed[k].enumerated = (PredicatesOf(processed[k].func) # <<>>)

\* C6: during one generate_inputs batch no artifact file name is written
\* more than once.
C6_WriteOnce ==
    \A i, j \in 1..Len(writes) : i # j => writes[i] # writes[j]

\* the paths generate_inputs enumerates for a manifest entry
PathsOf(func_data) == _gen_paths(ConstraintsFor(func_data), gi_max_paths)

\* a path that holds Equal(X, v) and NotEqual(X, v) for one X and one v
Contradictory(path) ==
    \E i, j \in 1..Len(path.constraints) :
        /\ path.constraints[i].constraint_type = "eq"
        /\ path.constraints[j].constraint_type = "neq"
        /\ path.constraints[i].var_name = path.constraints[j].var_name
        /\ path.constraints[i].value = path.constraints[j].value

\* the numbers (from 0) of the contradictory paths of an entry
ContradictoryIdx(func_data) ==
    LET paths == PathsOf(func_data)
    IN  { i - 1 : i \in { j \in 1..Len(paths) : Contradictory(paths[j]) } }

\* C11: a path that contains both Equal(X, v) and NotEqual(X, v) is
\* reported as having no solution, no artifact is ever written for its
\* path index, and the count grows only with the artifacts written for the
\* other paths.
C11_ScenarioB ==
    /\ (pc = "solved" /\ Contradictory(gi_paths[gi_idx + 1])) => gi_sol = None
    /\ pc # "idle" =>
         \A k \in 1..Len(firness_data) :
             \A i \in ContradictoryIdx(firness_data[k]) :
                 /\ FileName(firness_data[k].Function, i) \notin DOMAIN files
                 /\ \A w \in 1..Len(writes) :
                      writes[w] # FileName(firness_data[k].Function, i)
    /\ gi_count = Len(writes)

\* a batch over one entry has returned: path 0 was contradictory and has no
\* artifact, the other paths were solved and counted
C11_Witness ==
    /\ pc = "done"
    /\ Len(firness_data) = 1
    /\ ContradictoryIdx(firness_data[1]) = {0}
    /\ Len(PathsOf(firness_data[1])) >= 2
    /\ ret = <<Len(PathsOf(firness_data[1])) - 1>>
    /\ FileName(firness_data[1].Function, 1) \in DOMAIN files

\* the manifest entries generate_inputs has finished with
Completed == IF pc = "idle" THEN {} ELSE 1..(fi - 1)

\* the paths enumerated for an entry: none when it was passed over
EnumeratedPaths(func_data) ==
    IF ConstraintsFor(func_data) = <<>> THEN <<>> ELSE PathsOf(func_data)

\* C12: after generate_inputs has processed a function, the artifact named
\* from (function name, idx) exists if and only if the enumerated path at
\* position idx of the enumerator output was satisfiable: unsatisfiable
\* paths leave gaps and do not shift later indices.
C12_ArtifactPerSolvedPath ==
    \A k \in Completed :
        LET paths == EnumeratedPaths(firness_data[k])
        IN  \A i \in 0..MaxBudget :
                FileName(firness_data[k].Function, i) \in DOMAIN files
                <=> (i < Len(paths) /\ Sat(paths[i + 1]))

\* a batch over two entries has returned, and for one of them an
\* unsatisfiable path comes before a satisfiable one: the gap is there
C12_Witness ==
    /\ pc = "done"
    /\ Len(firness_data) = 2
    /\ \E k \in Completed :
         \E i, j \in 0..(Len(EnumeratedPaths(firness_data[k])) - 1) :
             /\ i < j
             /\ ~Sat(EnumeratedPaths(firness_data[k])[i + 1])
             /\ Sat(EnumeratedPaths(firness_data[k])[j + 1])
             /\ FileName(firness_data[k].Function, i) \notin DOMAIN files
             /\ FileName(firness_data[k].Function, j) \in DOMAIN files

\* C13: the count generate_inputs returns equals the number of artifacts
\* the batch has put in the store.
C13_BatchReport ==
    pc = "done" => ret = <<Cardinality(DOMAIN files)>>

\* C14: the hint registry is last-write-wins and nothing but add_hints
\* changes it: at every moment the entry of each function name is the list
\* of the most recent add_hints call for that name, and a name is in the
\* registry exactly when add_hints was called for it.
C14_HintRegistry ==
    /\ DOMAIN constraint_cache = DOMAIN last_hint
    /\ \A f \in DOMAIN last_hint : constraint_cache[f] = last_hint[f]

\* both names are registered, a batch has run over two entries and has
\* written artifacts, and the registry was read for both entries
C14_Witness ==
    /\ DOMAIN constraint_cache = FuncNames
    /\ pc = "done"
    /\ Len(processed) = 2
    /\ processed[1].func # processed[2].func
    /\ \A k \in 1..2 : processed[k].func \in FuncNames
    /\ writes # <<>>

\* the width in bytes a width hint denotes, 4 when it denotes none
WidthDenoted(arg_type) ==
    CASE arg_type = UINT64 -> 8
      [] arg_type = UINT32 -> 4
      [] arg_type = UINT16 -> 2
      [] arg_type = UINT8 -> 1
      [] OTHER -> 4

\* C15: in every call of _sol_to_bytes that returns, every IN argument
\* whose backing variable is in the assignment has, at the offset the loop
\* had reached, the little-endian bytes of its value mod 2^(8w), w being the
\* width its hint denotes (4 by default), and the offset advances by w.
C15_SlotContent ==
    \A c \in 1..Len(enc_calls) :
        LET r == enc_calls[c].result
            sol == enc_calls[c].solution
            args == enc_in.func_data.Arguments
        IN  ~r.raised =>
              /\ \A k \in InArgs(args) :
                   args[k].variable \in DOMAIN sol =>
                     /\ HasSlot(r, k)
                     /\ SlotOf(r, k).written
                     /\ SlotOf(r, k).width = WidthDenoted(args[k].arg_type)
                     /\ \A b \in 0..(SlotOf(r, k).width - 1) :
                          ByteAt(r.data, SlotOf(r, k).offset + b)
                            = sol[args[k].variable][b + 1]
              /\ \A i \in 1..Len(r.slots) :
                   r.slots[i].offset + r.slots[i].width
                     = IF i < Len(r.slots) THEN r.slots[i + 1].offset ELSE r.offset
              /\ r.slots # <<>> => r.slots[1].offset = 0

\* two 32-bit IN arguments with values 1 and 1 were encoded: the first
\* bytes are 01 00 00 00 01 00 00 00
C15_Witness ==
    /\ Len(enc_calls) >= 1
    /\ enc_in.func_data.Arguments
         = <<ArgInfo("IN", "X", UINT32), ArgInfo("IN", "Y", UINT32)>>
    /\ enc_calls[1].solution = [v \in {"X", "Y"} |-> Word64(1)]
    /\ ~enc_calls[1].result.raised
    /\ [p \in 0..7 |-> ByteAt(enc_calls[1].result.data, p)]
         = [p \in 0..7 |-> IF p \in {0, 4} THEN 1 ELSE 0]

\* C16: the buffer _sol_to_bytes returns has length max(used length, 1024):
\* at least 1024 and at most the capacity of 4096 bytes.
C16_BufferLength ==
    \A c \in 1..Len(enc_calls) :
        LET r == enc_calls[c].result
        IN  ~r.raised =>
              /\ r.data.len = Max(r.offset, MinLength)
              /\ r.data.len >= MinLength
              /\ r.data.len <= BufferCapacity

\* C17: an argument whose direction is not IN contributes no bytes and
\* does not advance the offset: the encoding of a manifest equals the
\* encoding of the manifest with the arguments that are not IN removed.
C17_DirectionFilter ==
    enc_in_only # <<>> =>
        LET full == enc_calls[1].result
            only == enc_in_only[1]
        IN  /\ full.raised = only.raised
            /\ ~full.raised =>
                 /\ full.data = only.data
                 /\ full.offset = only.offset
            /\ \A i \in 1..Len(full.slots) :
                 enc_in.func_data.Arguments[full.slots[i].arg].arg_dir = "IN"

\* both encodings were made of a manifest that has, before an IN argument
\* that is written, an argument that is not IN and whose variable the
\* assignment holds
C17_Witness ==
    /\ enc_in_only # <<>>
    /\ ~enc_calls[1].result.raised
    /\ enc_calls[1].result.data.nz # {}
    /\ \E j, k \in 1..Len(enc_in.func_data.Arguments) :
         /\ j < k
         /\ enc_in.func_data.Arguments[j].arg_dir # "IN"
         /\ enc_in.func_data.Arguments[j].variable \in DOMAIN enc_in.solution
         /\ enc_in.func_data.Arguments[k].arg_dir = "IN"
         /\ enc_in.func_data.Arguments[k].variable \in DOMAIN enc_in.solution

\* C21: processing the entries of a manifest in any order yields the same
\* final set of artifacts, names and contents.
C21_OrderIndependence ==
    ord_out # <<>> => ord_out[1].first.files = ord_out[1].second.files

\* generate_inputs of the engine ends with the files and the count the
\* function of the manifest gives
BatchAgrees ==
    pc = "done" =>
        LET r == RunBatch(solver, constraint_cache, gi_max_paths, firness_data,
                          Len(firness_data))
        IN  ~r.raised /\ r.files = files /\ <<r.count>> = ret

\* the messages printed so far
Printed == { wr_out[i] : i \in 1..Len(wr_out) }

\* C22: when the solver backend is missing, the run aborts with a failure
\* status before any function is processed or any artifact is written, and
\* it is never reported as successful.
C22_SolverUnavailableFatal ==
    (wr_engine # <<>> /\ ~wr_env.z3) =>
        /\ ~wr_engine[1].started
        /\ wr_engine[1].status # 0
        /\ "[+] Enhanced FIRNESS completed successfully" \notin Printed
        /\ wr_status # <<0>>

\* the places of the log with an event of the kind for the entry
EventsOf(kind, k) ==
    { i \in 1..Len(log) : log[i].kind = kind /\ log[i].entry = k }

\* C23: every write of manifest entry k happens before any solve or write of
\* entry k+1; within one entry the paths are solved and written in ascending
\* path index, each solve before its write; the registry is read exactly
\* once per named entry, before that entry's first solve.
C23_SequentialOrder ==
    /\ \A i, j \in 1..Len(log) :
         i < j =>
           /\ log[i].entry <= log[j].entry
           /\ log[i].entry = log[j].entry =>
                /\ log[j].kind # "read"
                /\ log[i].kind # "read" =>
                     \/ log[i].idx < log[j].idx
                     \/ /\ log[i].idx = log[j].idx
                        /\ log[i].kind = "solve"
                        /\ log[j].kind = "write"
    /\ \A j \in 1..Len(log) :
         log[j].kind # "read" =>
           \E i \in 1..(j - 1) : log[i] = Event("read", log[j].entry, 0)
    /\ \A k \in Completed :
         firness_data[k].Function # "" => Cardinality(EventsOf("read", k)) = 1

\* two entries were processed, the first with two artifacts, and the second
\* has been solved and written
C23_Witness ==
    /\ Cardinality(EventsOf("write", 1)) >= 2
    /\ EventsOf("solve", 2) # {}
    /\ EventsOf("write", 2) # {}

\* the returned paths hold, by value, what _gen_paths gives for the content
\* of the registry's list
ObjectsAgree ==
    hp_snap # <<>> =>
        hp_snap[1].paths =
            [i \in 1..Len(hp_paths[1]) |->
                _gen_paths(Content(hp_snap[1].before, hp_call.constraints),
                           hp_call.max_paths)[i].constraints]

\* C24: after _gen_paths and every _negate it performs, the list object the
\* registry holds has the elements it had and no predicate object that
\* existed before the call has changed; and whatever a caller later does to
\* the list of one returned path, the list of every other path and the
\* registry's list hold what they held.
C24_EnumerationFrame ==
    hp_snap # <<>> =>
        LET before == hp_snap[1].before
        IN  /\ hp_heap.lists[hp_call.constraints] = before.lists[hp_call.constraints]
            /\ \A c \in 1..Len(before.preds) : hp_heap.preds[c] = before.preds[c]
            /\ \A i \in 1..Len(hp_paths[1]) :
                 i \notin hp_touched =>
                   Content(hp_heap, hp_paths[1][i]) = hp_snap[1].paths[i]

\* a caller has changed the list of the first path and the list of another
\* path, and a third path is left
C24_Witness ==
    /\ hp_snap # <<>>
    /\ Len(hp_paths[1]) >= 3
    /\ 1 \in hp_touched
    /\ Cardinality(hp_touched) = 2
    /\ Content(hp_heap, hp_paths[1][1]) # hp_snap[1].paths[1]

--------------------------------------------------------------------------
(* The extractor *)

\* the header names F, a "{" follows it and the braces balance
WellFormed == ext_in.shape.found /\ ext_in.shape.open /\ ext_in.shape.closed

\* the definition of F is all the source text holds
Alone == ext_in.before = "none"

\* the predicates extracted from line i
EmittedAt(i) ==
    { ext_out[1][k] : k \in { j \in 1..Len(ext_out[1]) :
                                ext_out[1][j].location = Location("F", i) } }

KindOf(op) ==
    ComparisonOps[CHOOSE k \in 1..Len(ComparisonOps) : ComparisonOps[k][1] = op][2]

\* C18: extract_constraints returns an empty list whenever the function
\* name is not in the source, no "{" follows the match, or the braces after
\* the match never balance before the end of the text.
C18_ExtractionMiss ==
    (ext_out # <<>> /\ ~WellFormed) => ext_out[1] = <<>>

\* C19: for every guard line that tests an identifier with bitwise AND
\* against a hex or decimal literal, extract_constraints emits a BitmaskSet
\* predicate whose operand is the number the literal denotes.
C19_BitmaskOperand ==
    (ext_out # <<>> /\ WellFormed /\ Alone) =>
        \A i \in 1..Len(ext_in.guards) :
            LET g == ext_in.guards[i]
            IN  (g.form = "mask" /\ g.lit.value # None) =>
                    PathConstraint(Str(g.var), "flags", g.lit.value,
                                   Location("F", i)) \in EmittedAt(i)

\* C20: for every guard line that compares an identifier with a numeric
\* literal, decimal or 0x-prefixed hex, extract_constraints emits a
\* predicate of the matching kind whose operand is the exact value of the
\* literal; a literal that does not parse drops that predicate only.
C20_RelationalOperand ==
    (ext_out # <<>> /\ WellFormed /\ Alone) =>
        \A i \in 1..Len(ext_in.guards) :
            LET g == ext_in.guards[i]
            IN  g.form = "cmp" =>
                    IF g.lit.value # None
                    THEN PathConstraint(Str(g.var), KindOf(g.op), g.lit.value,
                                        Location("F", i)) \in EmittedAt(i)
                    ELSE \A c \in EmittedAt(i) : c.constraint_type # KindOf(g.op)

\* C25: every predicate extract_constraints returns for F comes from a guard
\* line inside the body of the definition of F, not from the body of a
\* function that calls F, follows a prototype of F, or has a name ending
\* with F.
C25_TargetsDefinition ==
    (ext_out # <<>> /\ WellFormed) =>
        \A k \in 1..Len(ext_out[1]) :
            \E i \in 1..Len(ext_in.guards) :
                /\ ext_out[1][k].var_name = Str(ext_in.guards[i].var)
                /\ ext_out[1][k].location = Location("F", i)

--------------------------------------------------------------------------
(* Crash triage *)

\* the number of times crash k is held by the buckets
TimesBucketed(k) ==
    LET Places(h) == { i \in 1..Len(ct_buckets[h]) : ct_buckets[h][i] = ct_crashes[k] }
        RECURSIVE Sum(_)
        Sum(hs) == IF hs = {} THEN 0
                   ELSE LET h == CHOOSE x \in hs : TRUE
                        IN  Cardinality(Places(h)) + Sum(hs \ {h})
    IN  Sum(DOMAIN ct_buckets)

\* the crashes with a hash
CrashesWith(h) == { k \in 1..Len(ct_crashes) : ct_crashes[k].crash_hash = h }

\* deduplicate_crashes has been called at least once
Deduplicated ==
    \/ ct_pc = "html" /\ ct_args.deduplicate
    \/ ct_pc \in {"json", "done"}

\* C26: after any number of calls of deduplicate_crashes every analyzed
\* crash is in exactly one bucket exactly once, and the occurrences a report
\* gives for a bug are its number of crashes.
C26_DeduplicationIdempotent ==
    Deduplicated =>
        /\ \A k \in 1..Len(ct_crashes) : TimesBucketed(k) = 1
        /\ \A r \in 1..Len(ct_reports) :
             \A h \in DOMAIN ct_reports[r].occurrences :
                ct_reports[r].occurrences[h] = Cardinality(CrashesWith(h))

--------------------------------------------------------------------------
(* Protocol mutators *)

\* the buffer that iteration i mutates: the seed, then the buffer before
Previous(i) == IF i = 1 THEN mu_in.data ELSE mu_mutations[i - 1]

\* C27: for any protocol identifier, seed and iterations k >= 0,
\* mutate_input returns exactly k buffers, each of the length of the seed,
\* never raises for a short buffer, derives buffer i from buffer i-1, and
\* returns k copies of the seed when the identifier is not in the map.
C27_BufferShape ==
    /\ mu_pc # "raised"
    /\ mu_pc = "returned" => Len(mu_mutations) = mu_in.iterations
    /\ \A i \in 1..Len(mu_mutations) :
         /\ Len(mu_mutations[i]) = Len(mu_in.data)
         /\ mu_mutations[i] =
              mutate(create_mutator(mu_in.protocol_guid), mu_draws[i],
                     Previous(i)).data
         /\ mu_in.protocol_guid \notin DOMAIN PROTOCOL_MAP =>
              mu_mutations[i] = mu_in.data

\* two iterations were made on a buffer of a protocol of the map, each
\* changing the buffer it was given, and the list was returned
C27_Witness ==
    /\ mu_pc = "returned"
    /\ mu_in.protocol_guid \in DOMAIN PROTOCOL_MAP
    /\ Len(mu_mutations) = 2
    /\ mu_mutations[1] # mu_in.data
    /\ mu_mutations[2] # mu_mutations[1]
    /\ mu_mutations[2] # mu_in.data

==========================================================================
